---- MODULE Spec2Model ----
(***************************************************************************)
(* Model of src/src/armado/sqlite_index.py (CDPedia): the DocSet posting   *)
(* list codec, the paged document store, Index.create and the read side of *)
(* Index.                                                                  *)
(*                                                                         *)
(* Representation.                                                         *)
(*   bytes / array('B')   sequences of integers 0..255                     *)
(*   str                  sequences of characters; a character is a        *)
(*                        one-character string, or "U+" and its code point *)
(*                        in hexadecimal where it cannot be written so     *)
(*   None                 the one-element sequence <<"None">> (no          *)
(*                        character goes by that name)                     *)
(*   dict / defaultdict   sequences of [key, val] records in insertion     *)
(*                        order (Python dicts iterate in insertion order)  *)
(*   a raised exception   a record [err |-> <exception name>, ...]         *)
(* Loops over sequences are written as folds whose recursion splits the    *)
(* index range in two halves: the loop body is applied to the elements in  *)
(* the order of the code, the halving only keeps the evaluation shallow    *)
(* (the test on the left half makes it be evaluated before the right one). *)
(***************************************************************************)
EXTENDS Integers, Sequences, FiniteSets, TLC

VARIABLES
    \* ---- DocSet.delta_encode / delta_decode on their own
    delta_pc, delta_in, delta_bytes, delta_out,
    \* ---- one DocSet object: append, encode, decode
    ds_pc, docs_list, encoded, decoded,
    \* ---- Index.create
    source,          \* the argument of create: a sequence of entries
    pc,              \* position inside create
    src_pos,         \* order_source: number of source entries read
    ordered_source,  \* order_source: dict score -> list of values
    gen,             \* gen_ordered: the values still to be yielded
    page_ant,        \* add_docs_keys: score of the previous document
    docs_table,      \* the Compressed SQLmany: [count, buffer]
    idx_dict,        \* add_docs_keys: dict word -> DocSet
    token_store,     \* the tokens SQLmany: [count, buffer]
    token_pos,       \* add_tokens_to_db: index of the next idx_dict item
    dict_stats,      \* dict_stats: [Indexed, Documents, Tokens]
    docs,            \* table docs: rows in insertion order
    tokens,          \* table tokens: rows in insertion order
    create_ret,      \* what create returned or raised
    docsrc,          \* history: docsrc[d + 1] is the source index of docid d
    \* ---- one Index reader on the built directory
    page_cache,      \* lru_cache(1000) of _get_page, least recent first
    len_cache,       \* lru_cache(1) of __len__
    call,            \* the last reader call and what it returned or raised
    ncalls,          \* number of reader calls made
    len_reads,       \* history: the readers whose __len__ read the docs table
    page_reads,      \* history: the (reader, pageid) _get_page read from docs
    scan,            \* a client that scans the pages: the pages it looked up
    values_gen,      \* the generator index.values() returned: its frame
    \* ---- threads that call get_doc on one Index
    heap,            \* the decoded page objects, in the order of their creation
    page_refs,       \* lru_cache(1000) of _get_page: keys and references
    threads,         \* each thread's position in get_doc and its locals
    \* ---- Index objects on several directories
    dirs             \* the databases of the Index objects opened, in order

codecVars == <<delta_pc, delta_in, delta_bytes, delta_out>>
docsetVars == <<ds_pc, docs_list, encoded, decoded>>
buildVars == <<source, pc, src_pos, ordered_source, gen, page_ant, docs_table,
               idx_dict, token_store, token_pos, dict_stats, docs, tokens,
               create_ret, docsrc>>
threadVars == <<heap, page_refs, threads>>
readerVars == <<page_cache, len_cache, call, ncalls, len_reads, page_reads,
                scan, values_gen, threadVars, dirs>>
vars == <<codecVars, docsetVars, buildVars, readerVars>>

----------------------------------------------------------------------------
(* Program constants *)

PAGE_SIZE == 512
SEPARATOR == 255
\* largest value of an array.array('B') item
BYTE_MAX == 255
PAGE_CACHE_SIZE == 1000
LEN_CACHE_SIZE == 1

None == <<"None">>

Ok(v) == [err |-> "none", val |-> v]
Raise(e) == [err |-> e, val |-> None]

----------------------------------------------------------------------------
(* Integer helpers: Python's &, |, >> and << on non-negative integers *)

RECURSIVE BitAnd(_, _)
BitAnd(a, b) ==
    IF a = 0 \/ b = 0 THEN 0
    ELSE (a % 2) * (b % 2) + 2 * BitAnd(a \div 2, b \div 2)

RECURSIVE BitOr(_, _)
BitOr(a, b) ==
    IF a = 0 THEN b
    ELSE IF b = 0 THEN a
    ELSE (IF a % 2 = 1 \/ b % 2 = 1 THEN 1 ELSE 0) + 2 * BitOr(a \div 2, b \div 2)

RECURSIVE Pow2(_)
Pow2(n) == IF n = 0 THEN 1 ELSE 2 * Pow2(n - 1)

ShiftRight(a, n) == a \div Pow2(n)
ShiftLeft(a, n) == a * Pow2(n)

Min(a, b) == IF a < b THEN a ELSE b

----------------------------------------------------------------------------
(* dict helpers *)

DictHas(d, k) == \E n \in 1..Len(d) : d[n].key = k
DictIdx(d, k) == CHOOSE n \in 1..Len(d) : d[n].key = k
DictGet(d, k) == d[DictIdx(d, k)].val
DictKeys(d) == {d[n].key : n \in 1..Len(d)}
\* d[k].append(v) on a defaultdict(list)
DictListAppend(d, k, v) ==
    IF DictHas(d, k)
    THEN [d EXCEPT ![DictIdx(d, k)].val = Append(@, v)]
    ELSE Append(d, [key |-> k, val |-> <<v>>])

----------------------------------------------------------------------------
(* DocSet.delta_encode *)

\* the inner "while True" loop: the bytes of one non-negative delta
RECURSIVE delta_encode_number(_)
delta_encode_number(doc) ==
    LET b == BitAnd(doc, 127)
        rest == ShiftRight(doc, 7)
    IN  IF rest # 0
        THEN <<BitOr(b, 128)>> \o delta_encode_number(rest)
        ELSE <<b>>

\* a faulty body: the continuation flag 0x80 is never set
delta_encode_body_NoFlag(st, doc) ==
    [prev_doc |-> doc,
     result |-> st.result \o
        [n \in 1..Len(delta_encode_number(doc - st.prev_doc)) |->
            BitAnd(delta_encode_number(doc - st.prev_doc)[n], 127)]]

\* one iteration of "for doc in ordered"; st = [prev_doc, result]
delta_encode_body(st, doc) ==
    [prev_doc |-> doc,
     result |-> st.result \o delta_encode_number(doc - st.prev_doc)]

RECURSIVE delta_encode_loop(_, _, _, _)
delta_encode_loop(ordered, st, lo, hi) ==
    IF lo > hi THEN st
    ELSE IF lo = hi THEN delta_encode_body(st, ordered[lo])
    ELSE LET mid == (lo + hi) \div 2
             left == delta_encode_loop(ordered, st, lo, mid)
         IN  IF Len(left.result) >= 0
             THEN delta_encode_loop(ordered, left, mid + 1, hi)
             ELSE left

delta_encode(ordered) ==
    delta_encode_loop(ordered, [prev_doc |-> 0, result |-> <<>>],
                      1, Len(ordered)).result

(* DocSet.delta_decode *)

\* one iteration of "for b in ordered"; st = [prev_doc, doc, shift, result]
delta_decode_body(st, b) ==
    LET doc == BitOr(st.doc, ShiftLeft(BitAnd(b, 127), st.shift))
        shift == st.shift + 7
    IN  IF BitAnd(b, 128) = 0
        THEN [prev_doc |-> st.prev_doc + doc, doc |-> 0, shift |-> 0,
              result |-> Append(st.result, st.prev_doc + doc)]
        ELSE [st EXCEPT !.doc = doc, !.shift = shift]

RECURSIVE delta_decode_loop(_, _, _, _)
delta_decode_loop(ordered, st, lo, hi) ==
    IF lo > hi THEN st
    ELSE IF lo = hi THEN delta_decode_body(st, ordered[lo])
    ELSE LET mid == (lo + hi) \div 2
             left == delta_decode_loop(ordered, st, lo, mid)
         IN  IF Len(left.result) >= 0
             THEN delta_decode_loop(ordered, left, mid + 1, hi)
             ELSE left

delta_decode(ordered) ==
    delta_decode_loop(ordered,
        [prev_doc |-> 0, doc |-> 0, shift |-> 0, result |-> <<>>],
        1, Len(ordered)).result

----------------------------------------------------------------------------
(* DocSet: _docs_list is a dict docid -> list of positions *)

\* DocSet.append
DocSet_append(dl, docid, position) == DictListAppend(dl, docid, position)

\* a faulty length: a document with several positions counts twice
DocSet_len_Positions(dl) ==
    Len(dl) + Cardinality({n \in 1..Len(dl) : Len(dl[n].val) >= 2})

\* DocSet.__len__
DocSet_len(dl) == Len(dl)

\* "docs_list.extend((key, value) for value in values)" for one item
encode_extend(acc, item) ==
    acc \o [n \in 1..Len(item.val) |-> <<item.key, item.val[n]>>]

RECURSIVE encode_pairs(_, _, _, _)
encode_pairs(dl, acc, lo, hi) ==
    IF lo > hi THEN acc
    ELSE IF lo = hi THEN encode_extend(acc, dl[lo])
    ELSE LET mid == (lo + hi) \div 2
             left == encode_pairs(dl, acc, lo, mid)
         IN  IF Len(left) >= 0 THEN encode_pairs(dl, left, mid + 1, hi)
             ELSE left

\* the order of Python tuples (docid, position)
PairLE(p, q) == p[1] < q[1] \/ (p[1] = q[1] /\ p[2] <= q[2])

IsSortedPairs(s) == \A n \in 1..(Len(s) - 1) : PairLE(s[n], s[n + 1])

\* x put into the sorted list s, after the items not greater than x
InsertPair(s, x) ==
    LET k == Cardinality({n \in 1..Len(s) : PairLE(s[n], x)})
    IN  [n \in 1..(Len(s) + 1) |->
            IF n <= k THEN s[n] ELSE IF n = k + 1 THEN x ELSE s[n - 1]]

RECURSIVE InsertAll(_, _, _, _)
InsertAll(s, acc, lo, hi) ==
    IF lo > hi THEN acc
    ELSE IF lo = hi THEN InsertPair(acc, s[lo])
    ELSE LET mid == (lo + hi) \div 2
             left == InsertAll(s, acc, lo, mid)
         IN  IF Len(left) >= 0 THEN InsertAll(s, left, mid + 1, hi)
             ELSE left

\* list.sort() of (docid, position) tuples: equal tuples are identical, so
\* the sorted list is unique; a list already in order is returned as it is
sort_pairs(s) == IF IsSortedPairs(s) THEN s ELSE InsertAll(s, <<>>, 1, Len(s))

\* a faulty test: > instead of >=
encode_invalid_Strict(position) ==
    \E n \in 1..Len(position) : position[n] > SEPARATOR

\* "any([x >= self.SEPARATOR for x in position])"
encode_invalid(position) ==
    \E n \in 1..Len(position) : position[n] >= SEPARATOR

\* a faulty encode: the docid stream put before the positions
DocSet_encode_DocsFirst(dl) ==
    IF Len(dl) = 0 THEN Ok(<<>>)
    ELSE LET pairs == sort_pairs(encode_pairs(dl, <<>>, 1, Len(dl)))
             docs_ids == [n \in 1..Len(pairs) |-> pairs[n][1]]
             docs_enc == delta_encode(docs_ids)
             position == [n \in 1..Len(pairs) |-> pairs[n][2]]
         IN  IF encode_invalid(position)
             THEN Raise("ValueError")
             ELSE Ok(docs_enc \o Append(position, SEPARATOR))

\* DocSet.encode: Ok(bytes) or Raise("ValueError")
DocSet_encode(dl) ==
    IF Len(dl) = 0 THEN Ok(<<>>)
    ELSE LET pairs == sort_pairs(encode_pairs(dl, <<>>, 1, Len(dl)))
             docs_ids == [n \in 1..Len(pairs) |-> pairs[n][1]]
             docs_enc == delta_encode(docs_ids)
             position == [n \in 1..Len(pairs) |-> pairs[n][2]]
         IN  IF encode_invalid(position)
             THEN Raise("ValueError")
             ELSE Ok(Append(position, SEPARATOR) \o docs_enc)

\* "for docid, position in zip(docsid, positions)" : one iteration
decode_body(dl, docid, position) == DictListAppend(dl, docid, position)

RECURSIVE decode_loop(_, _, _, _, _)
decode_loop(docsid, positions, dl, lo, hi) ==
    IF lo > hi THEN dl
    ELSE IF lo = hi THEN decode_body(dl, docsid[lo], positions[lo])
    ELSE LET mid == (lo + hi) \div 2
             left == decode_loop(docsid, positions, dl, lo, mid)
         IN  IF Len(left) >= 0
             THEN decode_loop(docsid, positions, left, mid + 1, hi)
             ELSE left

\* a faulty index: the last occurrence instead of the first
bytes_index_Last(bs, b) ==
    IF \E n \in 1..Len(bs) : bs[n] = b
    THEN CHOOSE n \in 1..Len(bs) :
            /\ bs[n] = b
            /\ \A m \in (n + 1)..Len(bs) : bs[m] # b
    ELSE 0

\* "encoded.index(cls.SEPARATOR)", 1-based; 0 when there is none
bytes_index(bs, b) ==
    IF \E n \in 1..Len(bs) : bs[n] = b
    THEN CHOOSE n \in 1..Len(bs) :
            /\ bs[n] = b
            /\ \A m \in 1..(n - 1) : bs[m] # b
    ELSE 0

\* DocSet.decode: Ok(_docs_list) or Raise("ValueError") (no separator)
DocSet_decode(enc) ==
    IF Len(enc) > 1
    THEN LET at == bytes_index(enc, SEPARATOR)
         IN  IF at = 0 THEN Raise("ValueError")
             ELSE LET docsid == delta_decode(SubSeq(enc, at + 1, Len(enc)))
                      positions == SubSeq(enc, 1, at - 1)
                  IN  Ok(decode_loop(docsid, positions, <<>>, 1,
                                     Min(Len(docsid), Len(positions))))
    ELSE Ok(<<>>)

----------------------------------------------------------------------------
(* to_filename *)

LowerCase == <<"a", "b", "c", "d", "e", "f", "g", "h", "i", "j", "k", "l", "m",
               "n", "o", "p", "q", "r", "s", "t", "u", "v", "w", "x", "y", "z">>
UpperCase == <<"A", "B", "C", "D", "E", "F", "G", "H", "I", "J", "K", "L", "M",
               "N", "O", "P", "Q", "R", "S", "T", "U", "V", "W", "X", "Y", "Z">>

\* the characters beyond ASCII that str.upper() changes into one character,
\* each followed by that character (the Unicode case mapping of the
\* interpreter); a character that cannot be written in a string of this
\* module goes by its code point, "U+" and its hexadecimal digits
UnicodeSimple ==
    << "µ", "U+039C", "à", "À", "á", "Á", "â", "Â", "ã", "Ã", "ä", "Ä",
       "å", "Å", "æ", "Æ", "ç", "Ç", "è", "È", "é", "É", "ê", "Ê", "ë", "Ë",
       "ì", "Ì", "í", "Í", "î", "Î", "ï", "Ï", "ð", "Ð", "ñ", "Ñ", "ò", "Ò",
       "ó", "Ó", "ô", "Ô", "õ", "Õ", "ö", "Ö", "ø", "Ø", "ù", "Ù", "ú", "Ú",
       "û", "Û", "ü", "Ü", "ý", "Ý", "þ", "Þ", "ÿ", "U+0178",
       "U+0101", "U+0100", "U+0103", "U+0102", "U+0105", "U+0104",
       "U+0107", "U+0106", "U+0109", "U+0108", "U+010B", "U+010A",
       "U+010D", "U+010C", "U+010F", "U+010E", "U+0111", "U+0110",
       "U+0113", "U+0112", "U+0115", "U+0114", "U+0117", "U+0116",
       "U+0119", "U+0118", "U+011B", "U+011A", "U+011D", "U+011C",
       "U+011F", "U+011E", "U+0121", "U+0120", "U+0123", "U+0122",
       "U+0125", "U+0124", "U+0127", "U+0126", "U+0129", "U+0128",
       "U+012B", "U+012A", "U+012D", "U+012C", "U+012F", "U+012E",
       "U+0131", "I", "U+0133", "U+0132", "U+0135", "U+0134",
       "U+0137", "U+0136", "U+013A", "U+0139", "U+013C", "U+013B",
       "U+013E", "U+013D", "U+0140", "U+013F", "U+0142", "U+0141",
       "U+0144", "U+0143", "U+0146", "U+0145", "U+0148", "U+0147",
       "U+014B", "U+014A", "U+014D", "U+014C", "U+014F", "U+014E",
       "U+0151", "U+0150", "U+0153", "U+0152", "U+0155", "U+0154",
       "U+0157", "U+0156", "U+0159", "U+0158", "U+015B", "U+015A",
       "U+015D", "U+015C", "U+015F", "U+015E", "U+0161", "U+0160",
       "U+0163", "U+0162", "U+0165", "U+0164", "U+0167", "U+0166",
       "U+0169", "U+0168", "U+016B", "U+016A", "U+016D", "U+016C",
       "U+016F", "U+016E", "U+0171", "U+0170", "U+0173", "U+0172",
       "U+0175", "U+0174", "U+0177", "U+0176", "U+017A", "U+0179",
       "U+017C", "U+017B", "U+017E", "U+017D", "U+017F", "S",
       "U+0180", "U+0243", "U+0183", "U+0182", "U+0185", "U+0184",
       "U+0188", "U+0187", "U+018C", "U+018B", "U+0192", "U+0191",
       "U+0195", "U+01F6", "U+0199", "U+0198", "U+019A", "U+023D",
       "U+019E", "U+0220", "U+01A1", "U+01A0", "U+01A3", "U+01A2",
       "U+01A5", "U+01A4", "U+01A8", "U+01A7", "U+01AD", "U+01AC",
       "U+01B0", "U+01AF", "U+01B4", "U+01B3", "U+01B6", "U+01B5",
       "U+01B9", "U+01B8", "U+01BD", "U+01BC", "U+01BF", "U+01F7",
       "U+01C5", "U+01C4", "U+01C6", "U+01C4", "U+01C8", "U+01C7",
       "U+01C9", "U+01C7", "U+01CB", "U+01CA", "U+01CC", "U+01CA",
       "U+01CE", "U+01CD", "U+01D0", "U+01CF", "U+01D2", "U+01D1",
       "U+01D4", "U+01D3", "U+01D6", "U+01D5", "U+01D8", "U+01D7",
       "U+01DA", "U+01D9", "U+01DC", "U+01DB", "U+01DD", "U+018E",
       "U+01DF", "U+01DE", "U+01E1", "U+01E0", "U+01E3", "U+01E2",
       "U+01E5", "U+01E4", "U+01E7", "U+01E6", "U+01E9", "U+01E8",
       "U+01EB", "U+01EA", "U+01ED", "U+01EC", "U+01EF", "U+01EE",
       "U+01F2", "U+01F1", "U+01F3", "U+01F1", "U+01F5", "U+01F4",
       "U+01F9", "U+01F8", "U+01FB", "U+01FA", "U+01FD", "U+01FC",
       "U+01FF", "U+01FE", "U+0201", "U+0200", "U+0203", "U+0202",
       "U+0205", "U+0204", "U+0207", "U+0206", "U+0209", "U+0208",
       "U+020B", "U+020A", "U+020D", "U+020C", "U+020F", "U+020E",
       "U+0211", "U+0210", "U+0213", "U+0212", "U+0215", "U+0214",
       "U+0217", "U+0216", "U+0219", "U+0218", "U+021B", "U+021A",
       "U+021D", "U+021C", "U+021F", "U+021E", "U+0223", "U+0222",
       "U+0225", "U+0224", "U+0227", "U+0226", "U+0229", "U+0228",
       "U+022B", "U+022A", "U+022D", "U+022C", "U+022F", "U+022E",
       "U+0231", "U+0230", "U+0233", "U+0232", "U+023C", "U+023B",
       "U+023F", "U+2C7E", "U+0240", "U+2C7F", "U+0242", "U+0241",
       "U+0247", "U+0246", "U+0249", "U+0248", "U+024B", "U+024A",
       "U+024D", "U+024C", "U+024F", "U+024E", "U+0250", "U+2C6F",
       "U+0251", "U+2C6D", "U+0252", "U+2C70", "U+0253", "U+0181",
       "U+0254", "U+0186", "U+0256", "U+0189", "U+0257", "U+018A",
       "U+0259", "U+018F", "U+025B", "U+0190", "U+025C", "U+A7AB",
       "U+0260", "U+0193", "U+0261", "U+A7AC", "U+0263", "U+0194",
       "U+0265", "U+A78D", "U+0266", "U+A7AA", "U+0268", "U+0197",
       "U+0269", "U+0196", "U+026A", "U+A7AE", "U+026B", "U+2C62",
       "U+026C", "U+A7AD", "U+026F", "U+019C", "U+0271", "U+2C6E",
       "U+0272", "U+019D", "U+0275", "U+019F", "U+027D", "U+2C64",
       "U+0280", "U+01A6", "U+0282", "U+A7C5", "U+0283", "U+01A9",
       "U+0287", "U+A7B1", "U+0288", "U+01AE", "U+0289", "U+0244",
       "U+028A", "U+01B1", "U+028B", "U+01B2", "U+028C", "U+0245",
       "U+0292", "U+01B7", "U+029D", "U+A7B2", "U+029E", "U+A7B0",
       "U+0345", "U+0399", "U+0371", "U+0370", "U+0373", "U+0372",
       "U+0377", "U+0376", "U+037B", "U+03FD", "U+037C", "U+03FE",
       "U+037D", "U+03FF", "U+03AC", "U+0386", "U+03AD", "U+0388",
       "U+03AE", "U+0389", "U+03AF", "U+038A", "U+03B1", "U+0391",
       "U+03B2", "U+0392", "U+03B3", "U+0393", "U+03B4", "U+0394",
       "U+03B5", "U+0395", "U+03B6", "U+0396", "U+03B7", "U+0397",
       "U+03B8", "U+0398", "U+03B9", "U+0399", "U+03BA", "U+039A",
       "U+03BB", "U+039B", "U+03BC", "U+039C", "U+03BD", "U+039D",
       "U+03BE", "U+039E", "U+03BF", "U+039F", "U+03C0", "U+03A0",
       "U+03C1", "U+03A1", "U+03C2", "U+03A3", "U+03C3", "U+03A3",
       "U+03C4", "U+03A4", "U+03C5", "U+03A5", "U+03C6", "U+03A6",
       "U+03C7", "U+03A7", "U+03C8", "U+03A8", "U+03C9", "U+03A9",
       "U+03CA", "U+03AA", "U+03CB", "U+03AB", "U+03CC", "U+038C",
       "U+03CD", "U+038E", "U+03CE", "U+038F", "U+03D0", "U+0392",
       "U+03D1", "U+0398", "U+03D5", "U+03A6", "U+03D6", "U+03A0",
       "U+03D7", "U+03CF", "U+03D9", "U+03D8", "U+03DB", "U+03DA",
       "U+03DD", "U+03DC", "U+03DF", "U+03DE", "U+03E1", "U+03E0",
       "U+03E3", "U+03E2", "U+03E5", "U+03E4", "U+03E7", "U+03E6",
       "U+03E9", "U+03E8", "U+03EB", "U+03EA", "U+03ED", "U+03EC",
       "U+03EF", "U+03EE", "U+03F0", "U+039A", "U+03F1", "U+03A1",
       "U+03F2", "U+03F9", "U+03F3", "U+037F", "U+03F5", "U+0395",
       "U+03F8", "U+03F7", "U+03FB", "U+03FA", "U+0430", "U+0410",
       "U+0431", "U+0411", "U+0432", "U+0412", "U+0433", "U+0413",
       "U+0434", "U+0414", "U+0435", "U+0415", "U+0436", "U+0416",
       "U+0437", "U+0417", "U+0438", "U+0418", "U+0439", "U+0419",
       "U+043A", "U+041A", "U+043B", "U+041B", "U+043C", "U+041C",
       "U+043D", "U+041D", "U+043E", "U+041E", "U+043F", "U+041F",
       "U+0440", "U+0420", "U+0441", "U+0421", "U+0442", "U+0422",
       "U+0443", "U+0423", "U+0444", "U+0424", "U+0445", "U+0425",
       "U+0446", "U+0426", "U+0447", "U+0427", "U+0448", "U+0428",
       "U+0449", "U+0429", "U+044A", "U+042A", "U+044B", "U+042B",
       "U+044C", "U+042C", "U+044D", "U+042D", "U+044E", "U+042E",
       "U+044F", "U+042F", "U+0450", "U+0400", "U+0451", "U+0401",
       "U+0452", "U+0402", "U+0453", "U+0403", "U+0454", "U+0404",
       "U+0455", "U+0405", "U+0456", "U+0406", "U+0457", "U+0407",
       "U+0458", "U+0408", "U+0459", "U+0409", "U+045A", "U+040A",
       "U+045B", "U+040B", "U+045C", "U+040C", "U+045D", "U+040D",
       "U+045E", "U+040E", "U+045F", "U+040F", "U+0461", "U+0460",
       "U+0463", "U+0462", "U+0465", "U+0464", "U+0467", "U+0466",
       "U+0469", "U+0468", "U+046B", "U+046A", "U+046D", "U+046C",
       "U+046F", "U+046E", "U+0471", "U+0470", "U+0473", "U+0472",
       "U+0475", "U+0474", "U+0477", "U+0476", "U+0479", "U+0478",
       "U+047B", "U+047A", "U+047D", "U+047C", "U+047F", "U+047E",
       "U+0481", "U+0480", "U+048B", "U+048A", "U+048D", "U+048C",
       "U+048F", "U+048E", "U+0491", "U+0490", "U+0493", "U+0492",
       "U+0495", "U+0494", "U+0497", "U+0496", "U+0499", "U+0498",
       "U+049B", "U+049A", "U+049D", "U+049C", "U+049F", "U+049E",
       "U+04A1", "U+04A0", "U+04A3", "U+04A2", "U+04A5", "U+04A4",
       "U+04A7", "U+04A6", "U+04A9", "U+04A8", "U+04AB", "U+04AA",
       "U+04AD", "U+04AC", "U+04AF", "U+04AE", "U+04B1", "U+04B0",
       "U+04B3", "U+04B2", "U+04B5", "U+04B4", "U+04B7", "U+04B6",
       "U+04B9", "U+04B8", "U+04BB", "U+04BA", "U+04BD", "U+04BC",
       "U+04BF", "U+04BE", "U+04C2", "U+04C1", "U+04C4", "U+04C3",
       "U+04C6", "U+04C5", "U+04C8", "U+04C7", "U+04CA", "U+04C9",
       "U+04CC", "U+04CB", "U+04CE", "U+04CD", "U+04CF", "U+04C0",
       "U+04D1", "U+04D0", "U+04D3", "U+04D2", "U+04D5", "U+04D4",
       "U+04D7", "U+04D6", "U+04D9", "U+04D8", "U+04DB", "U+04DA",
       "U+04DD", "U+04DC", "U+04DF", "U+04DE", "U+04E1", "U+04E0",
       "U+04E3", "U+04E2", "U+04E5", "U+04E4", "U+04E7", "U+04E6",
       "U+04E9", "U+04E8", "U+04EB", "U+04EA", "U+04ED", "U+04EC",
       "U+04EF", "U+04EE", "U+04F1", "U+04F0", "U+04F3", "U+04F2",
       "U+04F5", "U+04F4", "U+04F7", "U+04F6", "U+04F9", "U+04F8",
       "U+04FB", "U+04FA", "U+04FD", "U+04FC", "U+04FF", "U+04FE",
       "U+0501", "U+0500", "U+0503", "U+0502", "U+0505", "U+0504",
       "U+0507", "U+0506", "U+0509", "U+0508", "U+050B", "U+050A",
       "U+050D", "U+050C", "U+050F", "U+050E", "U+0511", "U+0510",
       "U+0513", "U+0512", "U+0515", "U+0514", "U+0517", "U+0516",
       "U+0519", "U+0518", "U+051B", "U+051A", "U+051D", "U+051C",
       "U+051F", "U+051E", "U+0521", "U+0520", "U+0523", "U+0522",
       "U+0525", "U+0524", "U+0527", "U+0526", "U+0529", "U+0528",
       "U+052B", "U+052A", "U+052D", "U+052C", "U+052F", "U+052E",
       "U+0561", "U+0531", "U+0562", "U+0532", "U+0563", "U+0533",
       "U+0564", "U+0534", "U+0565", "U+0535", "U+0566", "U+0536",
       "U+0567", "U+0537", "U+0568", "U+0538", "U+0569", "U+0539",
       "U+056A", "U+053A", "U+056B", "U+053B", "U+056C", "U+053C",
       "U+056D", "U+053D", "U+056E", "U+053E", "U+056F", "U+053F",
       "U+0570", "U+0540", "U+0571", "U+0541", "U+0572", "U+0542",
       "U+0573", "U+0543", "U+0574", "U+0544", "U+0575", "U+0545",
       "U+0576", "U+0546", "U+0577", "U+0547", "U+0578", "U+0548",
       "U+0579", "U+0549", "U+057A", "U+054A", "U+057B", "U+054B",
       "U+057C", "U+054C", "U+057D", "U+054D", "U+057E", "U+054E",
       "U+057F", "U+054F", "U+0580", "U+0550", "U+0581", "U+0551",
       "U+0582", "U+0552", "U+0583", "U+0553", "U+0584", "U+0554",
       "U+0585", "U+0555", "U+0586", "U+0556", "U+10D0", "U+1C90",
       "U+10D1", "U+1C91", "U+10D2", "U+1C92", "U+10D3", "U+1C93",
       "U+10D4", "U+1C94", "U+10D5", "U+1C95", "U+10D6", "U+1C96",
       "U+10D7", "U+1C97", "U+10D8", "U+1C98", "U+10D9", "U+1C99",
       "U+10DA", "U+1C9A", "U+10DB", "U+1C9B", "U+10DC", "U+1C9C",
       "U+10DD", "U+1C9D", "U+10DE", "U+1C9E", "U+10DF", "U+1C9F",
       "U+10E0", "U+1CA0", "U+10E1", "U+1CA1", "U+10E2", "U+1CA2",
       "U+10E3", "U+1CA3", "U+10E4", "U+1CA4", "U+10E5", "U+1CA5",
       "U+10E6", "U+1CA6", "U+10E7", "U+1CA7", "U+10E8", "U+1CA8",
       "U+10E9", "U+1CA9", "U+10EA", "U+1CAA", "U+10EB", "U+1CAB",
       "U+10EC", "U+1CAC", "U+10ED", "U+1CAD", "U+10EE", "U+1CAE",
       "U+10EF", "U+1CAF", "U+10F0", "U+1CB0", "U+10F1", "U+1CB1",
       "U+10F2", "U+1CB2", "U+10F3", "U+1CB3", "U+10F4", "U+1CB4",
       "U+10F5", "U+1CB5", "U+10F6", "U+1CB6", "U+10F7", "U+1CB7",
       "U+10F8", "U+1CB8", "U+10F9", "U+1CB9", "U+10FA", "U+1CBA",
       "U+10FD", "U+1CBD", "U+10FE", "U+1CBE", "U+10FF", "U+1CBF",
       "U+13F8", "U+13F0", "U+13F9", "U+13F1", "U+13FA", "U+13F2",
       "U+13FB", "U+13F3", "U+13FC", "U+13F4", "U+13FD", "U+13F5",
       "U+1C80", "U+0412", "U+1C81", "U+0414", "U+1C82", "U+041E",
       "U+1C83", "U+0421", "U+1C84", "U+0422", "U+1C85", "U+0422",
       "U+1C86", "U+042A", "U+1C87", "U+0462", "U+1C88", "U+A64A",
       "U+1D79", "U+A77D", "U+1D7D", "U+2C63", "U+1D8E", "U+A7C6",
       "U+1E01", "U+1E00", "U+1E03", "U+1E02", "U+1E05", "U+1E04",
       "U+1E07", "U+1E06", "U+1E09", "U+1E08", "U+1E0B", "U+1E0A",
       "U+1E0D", "U+1E0C", "U+1E0F", "U+1E0E", "U+1E11", "U+1E10",
       "U+1E13", "U+1E12", "U+1E15", "U+1E14", "U+1E17", "U+1E16",
       "U+1E19", "U+1E18", "U+1E1B", "U+1E1A", "U+1E1D", "U+1E1C",
       "U+1E1F", "U+1E1E", "U+1E21", "U+1E20", "U+1E23", "U+1E22",
       "U+1E25", "U+1E24", "U+1E27", "U+1E26", "U+1E29", "U+1E28",
       "U+1E2B", "U+1E2A", "U+1E2D", "U+1E2C", "U+1E2F", "U+1E2E",
       "U+1E31", "U+1E30", "U+1E33", "U+1E32", "U+1E35", "U+1E34",
       "U+1E37", "U+1E36", "U+1E39", "U+1E38", "U+1E3B", "U+1E3A",
       "U+1E3D", "U+1E3C", "U+1E3F", "U+1E3E", "U+1E41", "U+1E40",
       "U+1E43", "U+1E42", "U+1E45", "U+1E44", "U+1E47", "U+1E46",
       "U+1E49", "U+1E48", "U+1E4B", "U+1E4A", "U+1E4D", "U+1E4C",
       "U+1E4F", "U+1E4E", "U+1E51", "U+1E50", "U+1E53", "U+1E52",
       "U+1E55", "U+1E54", "U+1E57", "U+1E56", "U+1E59", "U+1E58",
       "U+1E5B", "U+1E5A", "U+1E5D", "U+1E5C", "U+1E5F", "U+1E5E",
       "U+1E61", "U+1E60", "U+1E63", "U+1E62", "U+1E65", "U+1E64",
       "U+1E67", "U+1E66", "U+1E69", "U+1E68", "U+1E6B", "U+1E6A",
       "U+1E6D", "U+1E6C", "U+1E6F", "U+1E6E", "U+1E71", "U+1E70",
       "U+1E73", "U+1E72", "U+1E75", "U+1E74", "U+1E77", "U+1E76",
       "U+1E79", "U+1E78", "U+1E7B", "U+1E7A", "U+1E7D", "U+1E7C",
       "U+1E7F", "U+1E7E", "U+1E81", "U+1E80", "U+1E83", "U+1E82",
       "U+1E85", "U+1E84", "U+1E87", "U+1E86", "U+1E89", "U+1E88",
       "U+1E8B", "U+1E8A", "U+1E8D", "U+1E8C", "U+1E8F", "U+1E8E",
       "U+1E91", "U+1E90", "U+1E93", "U+1E92", "U+1E95", "U+1E94",
       "U+1E9B", "U+1E60", "U+1EA1", "U+1EA0", "U+1EA3", "U+1EA2",
       "U+1EA5", "U+1EA4", "U+1EA7", "U+1EA6", "U+1EA9", "U+1EA8",
       "U+1EAB", "U+1EAA", "U+1EAD", "U+1EAC", "U+1EAF", "U+1EAE",
       "U+1EB1", "U+1EB0", "U+1EB3", "U+1EB2", "U+1EB5", "U+1EB4",
       "U+1EB7", "U+1EB6", "U+1EB9", "U+1EB8", "U+1EBB", "U+1EBA",
       "U+1EBD", "U+1EBC", "U+1EBF", "U+1EBE", "U+1EC1", "U+1EC0",
       "U+1EC3", "U+1EC2", "U+1EC5", "U+1EC4", "U+1EC7", "U+1EC6",
       "U+1EC9", "U+1EC8", "U+1ECB", "U+1ECA", "U+1ECD", "U+1ECC",
       "U+1ECF", "U+1ECE", "U+1ED1", "U+1ED0", "U+1ED3", "U+1ED2",
       "U+1ED5", "U+1ED4", "U+1ED7", "U+1ED6", "U+1ED9", "U+1ED8",
       "U+1EDB", "U+1EDA", "U+1EDD", "U+1EDC", "U+1EDF", "U+1EDE",
       "U+1EE1", "U+1EE0", "U+1EE3", "U+1EE2", "U+1EE5", "U+1EE4",
       "U+1EE7", "U+1EE6", "U+1EE9", "U+1EE8", "U+1EEB", "U+1EEA",
       "U+1EED", "U+1EEC", "U+1EEF", "U+1EEE", "U+1EF1", "U+1EF0",
       "U+1EF3", "U+1EF2", "U+1EF5", "U+1EF4", "U+1EF7", "U+1EF6",
       "U+1EF9", "U+1EF8", "U+1EFB", "U+1EFA", "U+1EFD", "U+1EFC",
       "U+1EFF", "U+1EFE", "U+1F00", "U+1F08", "U+1F01", "U+1F09",
       "U+1F02", "U+1F0A", "U+1F03", "U+1F0B", "U+1F04", "U+1F0C",
       "U+1F05", "U+1F0D", "U+1F06", "U+1F0E", "U+1F07", "U+1F0F",
       "U+1F10", "U+1F18", "U+1F11", "U+1F19", "U+1F12", "U+1F1A",
       "U+1F13", "U+1F1B", "U+1F14", "U+1F1C", "U+1F15", "U+1F1D",
       "U+1F20", "U+1F28", "U+1F21", "U+1F29", "U+1F22", "U+1F2A",
       "U+1F23", "U+1F2B", "U+1F24", "U+1F2C", "U+1F25", "U+1F2D",
       "U+1F26", "U+1F2E", "U+1F27", "U+1F2F", "U+1F30", "U+1F38",
       "U+1F31", "U+1F39", "U+1F32", "U+1F3A", "U+1F33", "U+1F3B",
       "U+1F34", "U+1F3C", "U+1F35", "U+1F3D", "U+1F36", "U+1F3E",
       "U+1F37", "U+1F3F", "U+1F40", "U+1F48", "U+1F41", "U+1F49",
       "U+1F42", "U+1F4A", "U+1F43", "U+1F4B", "U+1F44", "U+1F4C",
       "U+1F45", "U+1F4D", "U+1F51", "U+1F59", "U+1F53", "U+1F5B",
       "U+1F55", "U+1F5D", "U+1F57", "U+1F5F", "U+1F60", "U+1F68",
       "U+1F61", "U+1F69", "U+1F62", "U+1F6A", "U+1F63", "U+1F6B",
       "U+1F64", "U+1F6C", "U+1F65", "U+1F6D", "U+1F66", "U+1F6E",
       "U+1F67", "U+1F6F", "U+1F70", "U+1FBA", "U+1F71", "U+1FBB",
       "U+1F72", "U+1FC8", "U+1F73", "U+1FC9", "U+1F74", "U+1FCA",
       "U+1F75", "U+1FCB", "U+1F76", "U+1FDA", "U+1F77", "U+1FDB",
       "U+1F78", "U+1FF8", "U+1F79", "U+1FF9", "U+1F7A", "U+1FEA",
       "U+1F7B", "U+1FEB", "U+1F7C", "U+1FFA", "U+1F7D", "U+1FFB",
       "U+1FB0", "U+1FB8", "U+1FB1", "U+1FB9", "U+1FBE", "U+0399",
       "U+1FD0", "U+1FD8", "U+1FD1", "U+1FD9", "U+1FE0", "U+1FE8",
       "U+1FE1", "U+1FE9", "U+1FE5", "U+1FEC", "U+214E", "U+2132",
       "U+2170", "U+2160", "U+2171", "U+2161", "U+2172", "U+2162",
       "U+2173", "U+2163", "U+2174", "U+2164", "U+2175", "U+2165",
       "U+2176", "U+2166", "U+2177", "U+2167", "U+2178", "U+2168",
       "U+2179", "U+2169", "U+217A", "U+216A", "U+217B", "U+216B",
       "U+217C", "U+216C", "U+217D", "U+216D", "U+217E", "U+216E",
       "U+217F", "U+216F", "U+2184", "U+2183", "U+24D0", "U+24B6",
       "U+24D1", "U+24B7", "U+24D2", "U+24B8", "U+24D3", "U+24B9",
       "U+24D4", "U+24BA", "U+24D5", "U+24BB", "U+24D6", "U+24BC",
       "U+24D7", "U+24BD", "U+24D8", "U+24BE", "U+24D9", "U+24BF",
       "U+24DA", "U+24C0", "U+24DB", "U+24C1", "U+24DC", "U+24C2",
       "U+24DD", "U+24C3", "U+24DE", "U+24C4", "U+24DF", "U+24C5",
       "U+24E0", "U+24C6", "U+24E1", "U+24C7", "U+24E2", "U+24C8",
       "U+24E3", "U+24C9", "U+24E4", "U+24CA", "U+24E5", "U+24CB",
       "U+24E6", "U+24CC", "U+24E7", "U+24CD", "U+24E8", "U+24CE",
       "U+24E9", "U+24CF", "U+2C30", "U+2C00", "U+2C31", "U+2C01",
       "U+2C32", "U+2C02", "U+2C33", "U+2C03", "U+2C34", "U+2C04",
       "U+2C35", "U+2C05", "U+2C36", "U+2C06", "U+2C37", "U+2C07",
       "U+2C38", "U+2C08", "U+2C39", "U+2C09", "U+2C3A", "U+2C0A",
       "U+2C3B", "U+2C0B", "U+2C3C", "U+2C0C", "U+2C3D", "U+2C0D",
       "U+2C3E", "U+2C0E", "U+2C3F", "U+2C0F", "U+2C40", "U+2C10",
       "U+2C41", "U+2C11", "U+2C42", "U+2C12", "U+2C43", "U+2C13",
       "U+2C44", "U+2C14", "U+2C45", "U+2C15", "U+2C46", "U+2C16",
       "U+2C47", "U+2C17", "U+2C48", "U+2C18", "U+2C49", "U+2C19",
       "U+2C4A", "U+2C1A", "U+2C4B", "U+2C1B", "U+2C4C", "U+2C1C",
       "U+2C4D", "U+2C1D", "U+2C4E", "U+2C1E", "U+2C4F", "U+2C1F",
       "U+2C50", "U+2C20", "U+2C51", "U+2C21", "U+2C52", "U+2C22",
       "U+2C53", "U+2C23", "U+2C54", "U+2C24", "U+2C55", "U+2C25",
       "U+2C56", "U+2C26", "U+2C57", "U+2C27", "U+2C58", "U+2C28",
       "U+2C59", "U+2C29", "U+2C5A", "U+2C2A", "U+2C5B", "U+2C2B",
       "U+2C5C", "U+2C2C", "U+2C5D", "U+2C2D", "U+2C5E", "U+2C2E",
       "U+2C5F", "U+2C2F", "U+2C61", "U+2C60", "U+2C65", "U+023A",
       "U+2C66", "U+023E", "U+2C68", "U+2C67", "U+2C6A", "U+2C69",
       "U+2C6C", "U+2C6B", "U+2C73", "U+2C72", "U+2C76", "U+2C75",
       "U+2C81", "U+2C80", "U+2C83", "U+2C82", "U+2C85", "U+2C84",
       "U+2C87", "U+2C86", "U+2C89", "U+2C88", "U+2C8B", "U+2C8A",
       "U+2C8D", "U+2C8C", "U+2C8F", "U+2C8E", "U+2C91", "U+2C90",
       "U+2C93", "U+2C92", "U+2C95", "U+2C94", "U+2C97", "U+2C96",
       "U+2C99", "U+2C98", "U+2C9B", "U+2C9A", "U+2C9D", "U+2C9C",
       "U+2C9F", "U+2C9E", "U+2CA1", "U+2CA0", "U+2CA3", "U+2CA2",
       "U+2CA5", "U+2CA4", "U+2CA7", "U+2CA6", "U+2CA9", "U+2CA8",
       "U+2CAB", "U+2CAA", "U+2CAD", "U+2CAC", "U+2CAF", "U+2CAE",
       "U+2CB1", "U+2CB0", "U+2CB3", "U+2CB2", "U+2CB5", "U+2CB4",
       "U+2CB7", "U+2CB6", "U+2CB9", "U+2CB8", "U+2CBB", "U+2CBA",
       "U+2CBD", "U+2CBC", "U+2CBF", "U+2CBE", "U+2CC1", "U+2CC0",
       "U+2CC3", "U+2CC2", "U+2CC5", "U+2CC4", "U+2CC7", "U+2CC6",
       "U+2CC9", "U+2CC8", "U+2CCB", "U+2CCA", "U+2CCD", "U+2CCC",
       "U+2CCF", "U+2CCE", "U+2CD1", "U+2CD0", "U+2CD3", "U+2CD2",
       "U+2CD5", "U+2CD4", "U+2CD7", "U+2CD6", "U+2CD9", "U+2CD8",
       "U+2CDB", "U+2CDA", "U+2CDD", "U+2CDC", "U+2CDF", "U+2CDE",
       "U+2CE1", "U+2CE0", "U+2CE3", "U+2CE2", "U+2CEC", "U+2CEB",
       "U+2CEE", "U+2CED", "U+2CF3", "U+2CF2", "U+2D00", "U+10A0",
       "U+2D01", "U+10A1", "U+2D02", "U+10A2", "U+2D03", "U+10A3",
       "U+2D04", "U+10A4", "U+2D05", "U+10A5", "U+2D06", "U+10A6",
       "U+2D07", "U+10A7", "U+2D08", "U+10A8", "U+2D09", "U+10A9",
       "U+2D0A", "U+10AA", "U+2D0B", "U+10AB", "U+2D0C", "U+10AC",
       "U+2D0D", "U+10AD", "U+2D0E", "U+10AE", "U+2D0F", "U+10AF",
       "U+2D10", "U+10B0", "U+2D11", "U+10B1", "U+2D12", "U+10B2",
       "U+2D13", "U+10B3", "U+2D14", "U+10B4", "U+2D15", "U+10B5",
       "U+2D16", "U+10B6", "U+2D17", "U+10B7", "U+2D18", "U+10B8",
       "U+2D19", "U+10B9", "U+2D1A", "U+10BA", "U+2D1B", "U+10BB",
       "U+2D1C", "U+10BC", "U+2D1D", "U+10BD", "U+2D1E", "U+10BE",
       "U+2D1F", "U+10BF", "U+2D20", "U+10C0", "U+2D21", "U+10C1",
       "U+2D22", "U+10C2", "U+2D23", "U+10C3", "U+2D24", "U+10C4",
       "U+2D25", "U+10C5", "U+2D27", "U+10C7", "U+2D2D", "U+10CD",
       "U+A641", "U+A640", "U+A643", "U+A642", "U+A645", "U+A644",
       "U+A647", "U+A646", "U+A649", "U+A648", "U+A64B", "U+A64A",
       "U+A64D", "U+A64C", "U+A64F", "U+A64E", "U+A651", "U+A650",
       "U+A653", "U+A652", "U+A655", "U+A654", "U+A657", "U+A656",
       "U+A659", "U+A658", "U+A65B", "U+A65A", "U+A65D", "U+A65C",
       "U+A65F", "U+A65E", "U+A661", "U+A660", "U+A663", "U+A662",
       "U+A665", "U+A664", "U+A667", "U+A666", "U+A669", "U+A668",
       "U+A66B", "U+A66A", "U+A66D", "U+A66C", "U+A681", "U+A680",
       "U+A683", "U+A682", "U+A685", "U+A684", "U+A687", "U+A686",
       "U+A689", "U+A688", "U+A68B", "U+A68A", "U+A68D", "U+A68C",
       "U+A68F", "U+A68E", "U+A691", "U+A690", "U+A693", "U+A692",
       "U+A695", "U+A694", "U+A697", "U+A696", "U+A699", "U+A698",
       "U+A69B", "U+A69A", "U+A723", "U+A722", "U+A725", "U+A724",
       "U+A727", "U+A726", "U+A729", "U+A728", "U+A72B", "U+A72A",
       "U+A72D", "U+A72C", "U+A72F", "U+A72E", "U+A733", "U+A732",
       "U+A735", "U+A734", "U+A737", "U+A736", "U+A739", "U+A738",
       "U+A73B", "U+A73A", "U+A73D", "U+A73C", "U+A73F", "U+A73E",
       "U+A741", "U+A740", "U+A743", "U+A742", "U+A745", "U+A744",
       "U+A747", "U+A746", "U+A749", "U+A748", "U+A74B", "U+A74A",
       "U+A74D", "U+A74C", "U+A74F", "U+A74E", "U+A751", "U+A750",
       "U+A753", "U+A752", "U+A755", "U+A754", "U+A757", "U+A756",
       "U+A759", "U+A758", "U+A75B", "U+A75A", "U+A75D", "U+A75C",
       "U+A75F", "U+A75E", "U+A761", "U+A760", "U+A763", "U+A762",
       "U+A765", "U+A764", "U+A767", "U+A766", "U+A769", "U+A768",
       "U+A76B", "U+A76A", "U+A76D", "U+A76C", "U+A76F", "U+A76E",
       "U+A77A", "U+A779", "U+A77C", "U+A77B", "U+A77F", "U+A77E",
       "U+A781", "U+A780", "U+A783", "U+A782", "U+A785", "U+A784",
       "U+A787", "U+A786", "U+A78C", "U+A78B", "U+A791", "U+A790",
       "U+A793", "U+A792", "U+A794", "U+A7C4", "U+A797", "U+A796",
       "U+A799", "U+A798", "U+A79B", "U+A79A", "U+A79D", "U+A79C",
       "U+A79F", "U+A79E", "U+A7A1", "U+A7A0", "U+A7A3", "U+A7A2",
       "U+A7A5", "U+A7A4", "U+A7A7", "U+A7A6", "U+A7A9", "U+A7A8",
       "U+A7B5", "U+A7B4", "U+A7B7", "U+A7B6", "U+A7B9", "U+A7B8",
       "U+A7BB", "U+A7BA", "U+A7BD", "U+A7BC", "U+A7BF", "U+A7BE",
       "U+A7C1", "U+A7C0", "U+A7C3", "U+A7C2", "U+A7C8", "U+A7C7",
       "U+A7CA", "U+A7C9", "U+A7D1", "U+A7D0", "U+A7D7", "U+A7D6",
       "U+A7D9", "U+A7D8", "U+A7F6", "U+A7F5", "U+AB53", "U+A7B3",
       "U+AB70", "U+13A0", "U+AB71", "U+13A1", "U+AB72", "U+13A2",
       "U+AB73", "U+13A3", "U+AB74", "U+13A4", "U+AB75", "U+13A5",
       "U+AB76", "U+13A6", "U+AB77", "U+13A7", "U+AB78", "U+13A8",
       "U+AB79", "U+13A9", "U+AB7A", "U+13AA", "U+AB7B", "U+13AB",
       "U+AB7C", "U+13AC", "U+AB7D", "U+13AD", "U+AB7E", "U+13AE",
       "U+AB7F", "U+13AF", "U+AB80", "U+13B0", "U+AB81", "U+13B1",
       "U+AB82", "U+13B2", "U+AB83", "U+13B3", "U+AB84", "U+13B4",
       "U+AB85", "U+13B5", "U+AB86", "U+13B6", "U+AB87", "U+13B7",
       "U+AB88", "U+13B8", "U+AB89", "U+13B9", "U+AB8A", "U+13BA",
       "U+AB8B", "U+13BB", "U+AB8C", "U+13BC", "U+AB8D", "U+13BD",
       "U+AB8E", "U+13BE", "U+AB8F", "U+13BF", "U+AB90", "U+13C0",
       "U+AB91", "U+13C1", "U+AB92", "U+13C2", "U+AB93", "U+13C3",
       "U+AB94", "U+13C4", "U+AB95", "U+13C5", "U+AB96", "U+13C6",
       "U+AB97", "U+13C7", "U+AB98", "U+13C8", "U+AB99", "U+13C9",
       "U+AB9A", "U+13CA", "U+AB9B", "U+13CB", "U+AB9C", "U+13CC",
       "U+AB9D", "U+13CD", "U+AB9E", "U+13CE", "U+AB9F", "U+13CF",
       "U+ABA0", "U+13D0", "U+ABA1", "U+13D1", "U+ABA2", "U+13D2",
       "U+ABA3", "U+13D3", "U+ABA4", "U+13D4", "U+ABA5", "U+13D5",
       "U+ABA6", "U+13D6", "U+ABA7", "U+13D7", "U+ABA8", "U+13D8",
       "U+ABA9", "U+13D9", "U+ABAA", "U+13DA", "U+ABAB", "U+13DB",
       "U+ABAC", "U+13DC", "U+ABAD", "U+13DD", "U+ABAE", "U+13DE",
       "U+ABAF", "U+13DF", "U+ABB0", "U+13E0", "U+ABB1", "U+13E1",
       "U+ABB2", "U+13E2", "U+ABB3", "U+13E3", "U+ABB4", "U+13E4",
       "U+ABB5", "U+13E5", "U+ABB6", "U+13E6", "U+ABB7", "U+13E7",
       "U+ABB8", "U+13E8", "U+ABB9", "U+13E9", "U+ABBA", "U+13EA",
       "U+ABBB", "U+13EB", "U+ABBC", "U+13EC", "U+ABBD", "U+13ED",
       "U+ABBE", "U+13EE", "U+ABBF", "U+13EF", "U+FF41", "U+FF21",
       "U+FF42", "U+FF22", "U+FF43", "U+FF23", "U+FF44", "U+FF24",
       "U+FF45", "U+FF25", "U+FF46", "U+FF26", "U+FF47", "U+FF27",
       "U+FF48", "U+FF28", "U+FF49", "U+FF29", "U+FF4A", "U+FF2A",
       "U+FF4B", "U+FF2B", "U+FF4C", "U+FF2C", "U+FF4D", "U+FF2D",
       "U+FF4E", "U+FF2E", "U+FF4F", "U+FF2F", "U+FF50", "U+FF30",
       "U+FF51", "U+FF31", "U+FF52", "U+FF32", "U+FF53", "U+FF33",
       "U+FF54", "U+FF34", "U+FF55", "U+FF35", "U+FF56", "U+FF36",
       "U+FF57", "U+FF37", "U+FF58", "U+FF38", "U+FF59", "U+FF39",
       "U+FF5A", "U+FF3A", "U+10428", "U+10400", "U+10429", "U+10401",
       "U+1042A", "U+10402", "U+1042B", "U+10403", "U+1042C", "U+10404",
       "U+1042D", "U+10405", "U+1042E", "U+10406", "U+1042F", "U+10407",
       "U+10430", "U+10408", "U+10431", "U+10409", "U+10432", "U+1040A",
       "U+10433", "U+1040B", "U+10434", "U+1040C", "U+10435", "U+1040D",
       "U+10436", "U+1040E", "U+10437", "U+1040F", "U+10438", "U+10410",
       "U+10439", "U+10411", "U+1043A", "U+10412", "U+1043B", "U+10413",
       "U+1043C", "U+10414", "U+1043D", "U+10415", "U+1043E", "U+10416",
       "U+1043F", "U+10417", "U+10440", "U+10418", "U+10441", "U+10419",
       "U+10442", "U+1041A", "U+10443", "U+1041B", "U+10444", "U+1041C",
       "U+10445", "U+1041D", "U+10446", "U+1041E", "U+10447", "U+1041F",
       "U+10448", "U+10420", "U+10449", "U+10421", "U+1044A", "U+10422",
       "U+1044B", "U+10423", "U+1044C", "U+10424", "U+1044D", "U+10425",
       "U+1044E", "U+10426", "U+1044F", "U+10427", "U+104D8", "U+104B0",
       "U+104D9", "U+104B1", "U+104DA", "U+104B2", "U+104DB", "U+104B3",
       "U+104DC", "U+104B4", "U+104DD", "U+104B5", "U+104DE", "U+104B6",
       "U+104DF", "U+104B7", "U+104E0", "U+104B8", "U+104E1", "U+104B9",
       "U+104E2", "U+104BA", "U+104E3", "U+104BB", "U+104E4", "U+104BC",
       "U+104E5", "U+104BD", "U+104E6", "U+104BE", "U+104E7", "U+104BF",
       "U+104E8", "U+104C0", "U+104E9", "U+104C1", "U+104EA", "U+104C2",
       "U+104EB", "U+104C3", "U+104EC", "U+104C4", "U+104ED", "U+104C5",
       "U+104EE", "U+104C6", "U+104EF", "U+104C7", "U+104F0", "U+104C8",
       "U+104F1", "U+104C9", "U+104F2", "U+104CA", "U+104F3", "U+104CB",
       "U+104F4", "U+104CC", "U+104F5", "U+104CD", "U+104F6", "U+104CE",
       "U+104F7", "U+104CF", "U+104F8", "U+104D0", "U+104F9", "U+104D1",
       "U+104FA", "U+104D2", "U+104FB", "U+104D3", "U+10597", "U+10570",
       "U+10598", "U+10571", "U+10599", "U+10572", "U+1059A", "U+10573",
       "U+1059B", "U+10574", "U+1059C", "U+10575", "U+1059D", "U+10576",
       "U+1059E", "U+10577", "U+1059F", "U+10578", "U+105A0", "U+10579",
       "U+105A1", "U+1057A", "U+105A3", "U+1057C", "U+105A4", "U+1057D",
       "U+105A5", "U+1057E", "U+105A6", "U+1057F", "U+105A7", "U+10580",
       "U+105A8", "U+10581", "U+105A9", "U+10582", "U+105AA", "U+10583",
       "U+105AB", "U+10584", "U+105AC", "U+10585", "U+105AD", "U+10586",
       "U+105AE", "U+10587", "U+105AF", "U+10588", "U+105B0", "U+10589",
       "U+105B1", "U+1058A", "U+105B3", "U+1058C", "U+105B4", "U+1058D",
       "U+105B5", "U+1058E", "U+105B6", "U+1058F", "U+105B7", "U+10590",
       "U+105B8", "U+10591", "U+105B9", "U+10592", "U+105BB", "U+10594",
       "U+105BC", "U+10595", "U+10CC0", "U+10C80", "U+10CC1", "U+10C81",
       "U+10CC2", "U+10C82", "U+10CC3", "U+10C83", "U+10CC4", "U+10C84",
       "U+10CC5", "U+10C85", "U+10CC6", "U+10C86", "U+10CC7", "U+10C87",
       "U+10CC8", "U+10C88", "U+10CC9", "U+10C89", "U+10CCA", "U+10C8A",
       "U+10CCB", "U+10C8B", "U+10CCC", "U+10C8C", "U+10CCD", "U+10C8D",
       "U+10CCE", "U+10C8E", "U+10CCF", "U+10C8F", "U+10CD0", "U+10C90",
       "U+10CD1", "U+10C91", "U+10CD2", "U+10C92", "U+10CD3", "U+10C93",
       "U+10CD4", "U+10C94", "U+10CD5", "U+10C95", "U+10CD6", "U+10C96",
       "U+10CD7", "U+10C97", "U+10CD8", "U+10C98", "U+10CD9", "U+10C99",
       "U+10CDA", "U+10C9A", "U+10CDB", "U+10C9B", "U+10CDC", "U+10C9C",
       "U+10CDD", "U+10C9D", "U+10CDE", "U+10C9E", "U+10CDF", "U+10C9F",
       "U+10CE0", "U+10CA0", "U+10CE1", "U+10CA1", "U+10CE2", "U+10CA2",
       "U+10CE3", "U+10CA3", "U+10CE4", "U+10CA4", "U+10CE5", "U+10CA5",
       "U+10CE6", "U+10CA6", "U+10CE7", "U+10CA7", "U+10CE8", "U+10CA8",
       "U+10CE9", "U+10CA9", "U+10CEA", "U+10CAA", "U+10CEB", "U+10CAB",
       "U+10CEC", "U+10CAC", "U+10CED", "U+10CAD", "U+10CEE", "U+10CAE",
       "U+10CEF", "U+10CAF", "U+10CF0", "U+10CB0", "U+10CF1", "U+10CB1",
       "U+10CF2", "U+10CB2", "U+118C0", "U+118A0", "U+118C1", "U+118A1",
       "U+118C2", "U+118A2", "U+118C3", "U+118A3", "U+118C4", "U+118A4",
       "U+118C5", "U+118A5", "U+118C6", "U+118A6", "U+118C7", "U+118A7",
       "U+118C8", "U+118A8", "U+118C9", "U+118A9", "U+118CA", "U+118AA",
       "U+118CB", "U+118AB", "U+118CC", "U+118AC", "U+118CD", "U+118AD",
       "U+118CE", "U+118AE", "U+118CF", "U+118AF", "U+118D0", "U+118B0",
       "U+118D1", "U+118B1", "U+118D2", "U+118B2", "U+118D3", "U+118B3",
       "U+118D4", "U+118B4", "U+118D5", "U+118B5", "U+118D6", "U+118B6",
       "U+118D7", "U+118B7", "U+118D8", "U+118B8", "U+118D9", "U+118B9",
       "U+118DA", "U+118BA", "U+118DB", "U+118BB", "U+118DC", "U+118BC",
       "U+118DD", "U+118BD", "U+118DE", "U+118BE", "U+118DF", "U+118BF",
       "U+16E60", "U+16E40", "U+16E61", "U+16E41", "U+16E62", "U+16E42",
       "U+16E63", "U+16E43", "U+16E64", "U+16E44", "U+16E65", "U+16E45",
       "U+16E66", "U+16E46", "U+16E67", "U+16E47", "U+16E68", "U+16E48",
       "U+16E69", "U+16E49", "U+16E6A", "U+16E4A", "U+16E6B", "U+16E4B",
       "U+16E6C", "U+16E4C", "U+16E6D", "U+16E4D", "U+16E6E", "U+16E4E",
       "U+16E6F", "U+16E4F", "U+16E70", "U+16E50", "U+16E71", "U+16E51",
       "U+16E72", "U+16E52", "U+16E73", "U+16E53", "U+16E74", "U+16E54",
       "U+16E75", "U+16E55", "U+16E76", "U+16E56", "U+16E77", "U+16E57",
       "U+16E78", "U+16E58", "U+16E79", "U+16E59", "U+16E7A", "U+16E5A",
       "U+16E7B", "U+16E5B", "U+16E7C", "U+16E5C", "U+16E7D", "U+16E5D",
       "U+16E7E", "U+16E5E", "U+16E7F", "U+16E5F", "U+1E922", "U+1E900",
       "U+1E923", "U+1E901", "U+1E924", "U+1E902", "U+1E925", "U+1E903",
       "U+1E926", "U+1E904", "U+1E927", "U+1E905", "U+1E928", "U+1E906",
       "U+1E929", "U+1E907", "U+1E92A", "U+1E908", "U+1E92B", "U+1E909",
       "U+1E92C", "U+1E90A", "U+1E92D", "U+1E90B", "U+1E92E", "U+1E90C",
       "U+1E92F", "U+1E90D", "U+1E930", "U+1E90E", "U+1E931", "U+1E90F",
       "U+1E932", "U+1E910", "U+1E933", "U+1E911", "U+1E934", "U+1E912",
       "U+1E935", "U+1E913", "U+1E936", "U+1E914", "U+1E937", "U+1E915",
       "U+1E938", "U+1E916", "U+1E939", "U+1E917", "U+1E93A", "U+1E918",
       "U+1E93B", "U+1E919", "U+1E93C", "U+1E91A", "U+1E93D", "U+1E91B",
       "U+1E93E", "U+1E91C", "U+1E93F", "U+1E91D", "U+1E940", "U+1E91E",
       "U+1E941", "U+1E91F", "U+1E942", "U+1E920", "U+1E943", "U+1E921" >>

\* the characters that str.upper() changes into two or three characters
UnicodeSpecial ==
    << <<"ß", <<"S", "S">>>>, <<"U+0149", <<"U+02BC", "N">>>>,
       <<"U+01F0", <<"J", "U+030C">>>>,
       <<"U+0390", <<"U+0399", "U+0308", "U+0301">>>>,
       <<"U+03B0", <<"U+03A5", "U+0308", "U+0301">>>>,
       <<"U+0587", <<"U+0535", "U+0552">>>>, <<"U+1E96", <<"H", "U+0331">>>>,
       <<"U+1E97", <<"T", "U+0308">>>>, <<"U+1E98", <<"W", "U+030A">>>>,
       <<"U+1E99", <<"Y", "U+030A">>>>, <<"U+1E9A", <<"A", "U+02BE">>>>,
       <<"U+1F50", <<"U+03A5", "U+0313">>>>,
       <<"U+1F52", <<"U+03A5", "U+0313", "U+0300">>>>,
       <<"U+1F54", <<"U+03A5", "U+0313", "U+0301">>>>,
       <<"U+1F56", <<"U+03A5", "U+0313", "U+0342">>>>,
       <<"U+1F80", <<"U+1F08", "U+0399">>>>,
       <<"U+1F81", <<"U+1F09", "U+0399">>>>,
       <<"U+1F82", <<"U+1F0A", "U+0399">>>>,
       <<"U+1F83", <<"U+1F0B", "U+0399">>>>,
       <<"U+1F84", <<"U+1F0C", "U+0399">>>>,
       <<"U+1F85", <<"U+1F0D", "U+0399">>>>,
       <<"U+1F86", <<"U+1F0E", "U+0399">>>>,
       <<"U+1F87", <<"U+1F0F", "U+0399">>>>,
       <<"U+1F88", <<"U+1F08", "U+0399">>>>,
       <<"U+1F89", <<"U+1F09", "U+0399">>>>,
       <<"U+1F8A", <<"U+1F0A", "U+0399">>>>,
       <<"U+1F8B", <<"U+1F0B", "U+0399">>>>,
       <<"U+1F8C", <<"U+1F0C", "U+0399">>>>,
       <<"U+1F8D", <<"U+1F0D", "U+0399">>>>,
       <<"U+1F8E", <<"U+1F0E", "U+0399">>>>,
       <<"U+1F8F", <<"U+1F0F", "U+0399">>>>,
       <<"U+1F90", <<"U+1F28", "U+0399">>>>,
       <<"U+1F91", <<"U+1F29", "U+0399">>>>,
       <<"U+1F92", <<"U+1F2A", "U+0399">>>>,
       <<"U+1F93", <<"U+1F2B", "U+0399">>>>,
       <<"U+1F94", <<"U+1F2C", "U+0399">>>>,
       <<"U+1F95", <<"U+1F2D", "U+0399">>>>,
       <<"U+1F96", <<"U+1F2E", "U+0399">>>>,
       <<"U+1F97", <<"U+1F2F", "U+0399">>>>,
       <<"U+1F98", <<"U+1F28", "U+0399">>>>,
       <<"U+1F99", <<"U+1F29", "U+0399">>>>,
       <<"U+1F9A", <<"U+1F2A", "U+0399">>>>,
       <<"U+1F9B", <<"U+1F2B", "U+0399">>>>,
       <<"U+1F9C", <<"U+1F2C", "U+0399">>>>,
       <<"U+1F9D", <<"U+1F2D", "U+0399">>>>,
       <<"U+1F9E", <<"U+1F2E", "U+0399">>>>,
       <<"U+1F9F", <<"U+1F2F", "U+0399">>>>,
       <<"U+1FA0", <<"U+1F68", "U+0399">>>>,
       <<"U+1FA1", <<"U+1F69", "U+0399">>>>,
       <<"U+1FA2", <<"U+1F6A", "U+0399">>>>,
       <<"U+1FA3", <<"U+1F6B", "U+0399">>>>,
       <<"U+1FA4", <<"U+1F6C", "U+0399">>>>,
       <<"U+1FA5", <<"U+1F6D", "U+0399">>>>,
       <<"U+1FA6", <<"U+1F6E", "U+0399">>>>,
       <<"U+1FA7", <<"U+1F6F", "U+0399">>>>,
       <<"U+1FA8", <<"U+1F68", "U+0399">>>>,
       <<"U+1FA9", <<"U+1F69", "U+0399">>>>,
       <<"U+1FAA", <<"U+1F6A", "U+0399">>>>,
       <<"U+1FAB", <<"U+1F6B", "U+0399">>>>,
       <<"U+1FAC", <<"U+1F6C", "U+0399">>>>,
       <<"U+1FAD", <<"U+1F6D", "U+0399">>>>,
       <<"U+1FAE", <<"U+1F6E", "U+0399">>>>,
       <<"U+1FAF", <<"U+1F6F", "U+0399">>>>,
       <<"U+1FB2", <<"U+1FBA", "U+0399">>>>,
       <<"U+1FB3", <<"U+0391", "U+0399">>>>,
       <<"U+1FB4", <<"U+0386", "U+0399">>>>,
       <<"U+1FB6", <<"U+0391", "U+0342">>>>,
       <<"U+1FB7", <<"U+0391", "U+0342", "U+0399">>>>,
       <<"U+1FBC", <<"U+0391", "U+0399">>>>,
       <<"U+1FC2", <<"U+1FCA", "U+0399">>>>,
       <<"U+1FC3", <<"U+0397", "U+0399">>>>,
       <<"U+1FC4", <<"U+0389", "U+0399">>>>,
       <<"U+1FC6", <<"U+0397", "U+0342">>>>,
       <<"U+1FC7", <<"U+0397", "U+0342", "U+0399">>>>,
       <<"U+1FCC", <<"U+0397", "U+0399">>>>,
       <<"U+1FD2", <<"U+0399", "U+0308", "U+0300">>>>,
       <<"U+1FD3", <<"U+0399", "U+0308", "U+0301">>>>,
       <<"U+1FD6", <<"U+0399", "U+0342">>>>,
       <<"U+1FD7", <<"U+0399", "U+0308", "U+0342">>>>,
       <<"U+1FE2", <<"U+03A5", "U+0308", "U+0300">>>>,
       <<"U+1FE3", <<"U+03A5", "U+0308", "U+0301">>>>,
       <<"U+1FE4", <<"U+03A1", "U+0313">>>>,
       <<"U+1FE6", <<"U+03A5", "U+0342">>>>,
       <<"U+1FE7", <<"U+03A5", "U+0308", "U+0342">>>>,
       <<"U+1FF2", <<"U+1FFA", "U+0399">>>>,
       <<"U+1FF3", <<"U+03A9", "U+0399">>>>,
       <<"U+1FF4", <<"U+038F", "U+0399">>>>,
       <<"U+1FF6", <<"U+03A9", "U+0342">>>>,
       <<"U+1FF7", <<"U+03A9", "U+0342", "U+0399">>>>,
       <<"U+1FFC", <<"U+03A9", "U+0399">>>>, <<"U+FB00", <<"F", "F">>>>,
       <<"U+FB01", <<"F", "I">>>>, <<"U+FB02", <<"F", "L">>>>,
       <<"U+FB03", <<"F", "F", "I">>>>, <<"U+FB04", <<"F", "F", "L">>>>,
       <<"U+FB05", <<"S", "T">>>>, <<"U+FB06", <<"S", "T">>>>,
       <<"U+FB13", <<"U+0544", "U+0546">>>>,
       <<"U+FB14", <<"U+0544", "U+0535">>>>,
       <<"U+FB15", <<"U+0544", "U+053B">>>>,
       <<"U+FB16", <<"U+054E", "U+0546">>>>,
       <<"U+FB17", <<"U+0544", "U+053D">>>> >>

\* str.upper() of a character beyond ASCII, from the two tables
table_upper(simple, special, c) ==
    IF \E n \in 1..Len(special) : special[n][1] = c
    THEN special[CHOOSE n \in 1..Len(special) : special[n][1] = c][2]
    ELSE IF \E n \in 1..(Len(simple) \div 2) : simple[2 * n - 1] = c
    THEN <<simple[2 * (CHOOSE n \in 1..(Len(simple) \div 2) : simple[2 * n - 1] = c)]>>
    ELSE <<c>>

\* str.upper() of one character: the sequence of characters it becomes
str_upper(c) ==
    IF \E n \in 1..Len(LowerCase) : LowerCase[n] = c
    THEN <<UpperCase[CHOOSE n \in 1..Len(LowerCase) : LowerCase[n] = c]>>
    ELSE table_upper(UnicodeSimple, UnicodeSpecial, c)

\* title.replace(" ", "_")
str_replace_space(title) ==
    [n \in 1..Len(title) |-> IF title[n] = " " THEN "_" ELSE title[n]]

\* to3dirs.get_path_file: the three directory levels are the first three
\* characters, a missing one replaced by "_"; the file is named as the page
to3dirs_get_path_file(tt) ==
    LET level(n) == IF n <= Len(tt) THEN tt[n] ELSE "_"
    IN  [dir3 |-> <<level(1), "/", level(2), "/", level(3)>>, arch |-> tt]

\* os.path.join of two components
os_path_join(a, b) ==
    IF Len(b) > 0 /\ b[1] = "/" THEN b
    ELSE IF Len(a) = 0 \/ a[Len(a)] = "/" THEN a \o b
    ELSE a \o <<"/">> \o b

\* a faulty to_filename: the first character is not upper-cased
to_filename_NoUpper(title) ==
    LET tt == str_replace_space(title)
    IN  IF Len(tt) = 0
        THEN Raise("ValueError")
        ELSE Ok(os_path_join(to3dirs_get_path_file(tt).dir3,
                             to3dirs_get_path_file(tt).arch))

\* a faulty to_filename: the empty title is accepted
to_filename_AnyTitle(title) ==
    LET tt == str_replace_space(title)
        up == IF Len(tt) >= 2 THEN str_upper(tt[1]) \o SubSeq(tt, 2, Len(tt))
              ELSE IF Len(tt) = 1 THEN str_upper(tt[1]) ELSE tt
    IN  Ok(os_path_join(to3dirs_get_path_file(up).dir3,
                        to3dirs_get_path_file(up).arch))

\* to_filename: Ok(filename) or Raise("ValueError")
to_filename(title) ==
    LET tt == str_replace_space(title)
        up == IF Len(tt) >= 2 THEN str_upper(tt[1]) \o SubSeq(tt, 2, Len(tt))
              ELSE str_upper(tt[1])
    IN  IF Len(tt) = 0
        THEN Raise("ValueError")
        ELSE Ok(os_path_join(to3dirs_get_path_file(up).dir3,
                             to3dirs_get_path_file(up).arch))

----------------------------------------------------------------------------
(* Index.create: the helpers of its steps *)

\* pickletools.optimize(pickle.dumps(x)) then lzma.compress, and back
compress_data(docs_data) == [lzma |-> docs_data]
decompress_data(blob) == blob.lzma

\* array.array("B").append of every word_quant: is one out of range
word_quants_overflow(buffer) ==
    \E n \in 1..Len(buffer) : buffer[n].word_quant > BYTE_MAX

\* a faulty page id: computed from count instead of count - 1
page_id_of_count_OffByOne(count) == count \div PAGE_SIZE

\* Compressed.persist: "page_id = (self.count - 1) // PAGE_SIZE"
page_id_of_count(count) == (count - 1) \div PAGE_SIZE

\* Compressed.persist: Ok(the docs table after the INSERT) or Raise(e)
Compressed_persist(table, st) ==
    IF word_quants_overflow(st.buffer) THEN Raise("OverflowError")
    ELSE LET row == [pageid |-> page_id_of_count(st.count),
                     word_quants |-> [n \in 1..Len(st.buffer) |->
                                         st.buffer[n].word_quant],
                     data |-> compress_data([n \in 1..Len(st.buffer) |->
                                         st.buffer[n].data])]
         IN  IF \E n \in 1..Len(table) : table[n].pageid = row.pageid
             THEN Raise("IntegrityError")
             ELSE Ok(Append(table, row))

\* SQLmany.persist for the tokens: executemany adapts every DocSet with
\* DocSet.encode; Ok(the tokens table after the INSERTs) or Raise(e)
Tokens_persist(table, st) ==
    IF \E n \in 1..Len(st.buffer) : DocSet_encode(st.buffer[n].docset).err # "none"
    THEN Raise("ValueError")
    ELSE Ok(table \o [n \in 1..Len(st.buffer) |->
                [word |-> st.buffer[n].word,
                 docsets |-> DocSet_encode(st.buffer[n].docset).val]])

\* a faulty append: the buffer is not emptied after persist
SQLmany_append_KeepBuffer(st, item, table, is_docs) ==
    LET st1 == [count |-> st.count + 1, buffer |-> Append(st.buffer, item)]
    IN  IF st1.count % PAGE_SIZE = 0
        THEN LET res == IF is_docs THEN Compressed_persist(table, st1)
                        ELSE Tokens_persist(table, st1)
             IN  [st |-> st1, table |-> res]
        ELSE [st |-> st1, table |-> Ok(table)]

\* SQLmany.append: [st |-> the SQLmany after it, table |-> Ok(table) or Raise]
SQLmany_append(st, item, table, is_docs) ==
    LET st1 == [count |-> st.count + 1, buffer |-> Append(st.buffer, item)]
    IN  IF st1.count % PAGE_SIZE = 0
        THEN LET res == IF is_docs THEN Compressed_persist(table, st1)
                        ELSE Tokens_persist(table, st1)
             IN  [st |-> IF res.err = "none" THEN [st1 EXCEPT !.buffer = <<>>]
                         ELSE st1,
                  table |-> res]
        ELSE [st |-> st1, table |-> Ok(table)]

\* SQLmany.finish: Ok(table) or Raise
SQLmany_finish(st, table, is_docs) ==
    IF Len(st.buffer) > 0
    THEN IF is_docs THEN Compressed_persist(table, st)
         ELSE Tokens_persist(table, st)
    ELSE Ok(table)

\* a faulty append: positions counted from 1
add_word_OneBased(idx, word, docid, at) ==
    IF DictHas(idx, word)
    THEN [idx EXCEPT ![DictIdx(idx, word)].val = DocSet_append(@, docid, at + 1)]
    ELSE Append(idx, [key |-> word, val |-> DocSet_append(<<>>, docid, at + 1)])

\* "idx_dict[word].append(docid, idx)" on the defaultdict(DocSet)
add_word(idx, word, docid, at) ==
    IF DictHas(idx, word)
    THEN [idx EXCEPT ![DictIdx(idx, word)].val = DocSet_append(@, docid, at)]
    ELSE Append(idx, [key |-> word, val |-> DocSet_append(<<>>, docid, at)])

\* "for idx, word in enumerate(words)"
RECURSIVE add_words(_, _, _, _, _)
add_words(idx, words, docid, lo, hi) ==
    IF lo > hi THEN idx
    ELSE IF lo = hi THEN add_word(idx, words[lo], docid, lo - 1)
    ELSE LET mid == (lo + hi) \div 2
             left == add_words(idx, words, docid, lo, mid)
         IN  IF Len(left) >= 0 THEN add_words(left, words, docid, mid + 1, hi)
             ELSE left

\* sorted(keys, reverse=True)
RECURSIVE sorted_reverse(_)
sorted_reverse(S) ==
    IF S = {} THEN <<>>
    ELSE LET m == CHOOSE x \in S : \A y \in S : y <= x
         IN  <<m>> \o sorted_reverse(S \ {m})

\* a faulty order: ascending scores
RECURSIVE sorted_forward(_)
sorted_forward(S) ==
    IF S = {} THEN <<>>
    ELSE LET m == CHOOSE x \in S : \A y \in S : x <= y
         IN  <<m>> \o sorted_forward(S \ {m})

RECURSIVE gen_values(_, _)
gen_values(os, scores) ==
    IF scores = <<>> THEN <<>>
    ELSE DictGet(os, Head(scores)) \o gen_values(os, Tail(scores))

gen_ordered_Ascending(os) == gen_values(os, sorted_forward(DictKeys(os)))

\* gen_ordered: everything the generator yields, in order
gen_ordered(os) == gen_values(os, sorted_reverse(DictKeys(os)))

----------------------------------------------------------------------------
(* The values of the variables a specification does not use *)

NewSQLmany == [count |-> 0, buffer |-> <<>>]
MaxThreads == 2
MaxThreadCalls == 1
Threads == 1..MaxThreads
\* a thread that is not inside get_doc: ref is the page object (0: none)
\* and wrote tells whether the call stored the filename in the row
ThreadIdle == [pc |-> "idle", docid |-> 0, ref |-> 0, res |-> Ok(None),
               wrote |-> FALSE, calls |-> 0]

\* no generator of values() yet: "none"; then "created" until its first
\* next(), "running" between two records and "finished" after the last;
\* rows is the list of fetchall(), row and doc the positions of the two loops
NoGenerator == [pc |-> "none", rows |-> <<>>, row |-> 0, doc |-> 0]
NoCall == [op |-> "none", self |-> 0, arg |-> 0, res |-> Ok(None), read |-> FALSE]

CodecIdle ==
    /\ delta_pc = "idle" /\ delta_in = <<>>
    /\ delta_bytes = <<>> /\ delta_out = <<>>

DocSetIdle ==
    /\ ds_pc = "idle" /\ docs_list = <<>>
    /\ encoded = Ok(<<>>) /\ decoded = Ok(<<>>)

BuildIdle ==
    /\ source = <<>> /\ pc = "idle" /\ src_pos = 0
    /\ ordered_source = <<>> /\ gen = <<>> /\ page_ant = -1
    /\ docs_table = NewSQLmany /\ idx_dict = <<>>
    /\ token_store = NewSQLmany /\ token_pos = 0
    /\ dict_stats = [Indexed |-> 0, Documents |-> 0, Tokens |-> 0]
    /\ docs = <<>> /\ tokens = <<>>
    /\ create_ret = Ok(None) /\ docsrc = <<>>

ReaderIdle ==
    /\ page_cache = <<>> /\ len_cache = <<>>
    /\ call = NoCall /\ ncalls = 0 /\ len_reads = <<>>
    /\ page_reads = <<>> /\ scan = 0
    /\ values_gen = NoGenerator
    /\ heap = <<>> /\ page_refs = <<>>
    /\ threads = [t \in Threads |-> ThreadIdle]
    /\ dirs = <<>>

----------------------------------------------------------------------------
(* delta_encode and delta_decode applied to ascending sequences *)

MaxSeqLen == 3
DeltaValues == {0, 1, 127, 128, 255, 16383, 16384, 2097152}

\* the sequences over S of length n that ascend, duplicates allowed
RECURSIVE AscendingSeqs(_, _)
AscendingSeqs(S, n) ==
    IF n = 0 THEN {<<>>}
    ELSE {Append(s, v) : s \in AscendingSeqs(S, n - 1), v \in S} \cap
         {s \in [1..n -> S] : \A m \in 1..(n - 1) : s[m] <= s[m + 1]}

DeltaInit ==
    /\ delta_pc = "start"
    /\ delta_in \in UNION {AscendingSeqs(DeltaValues, n) : n \in 0..MaxSeqLen}
    /\ delta_bytes = <<>> /\ delta_out = <<>>
    /\ DocSetIdle /\ BuildIdle /\ ReaderIdle

DeltaEncode ==
    /\ delta_pc = "start"
    /\ delta_bytes' = delta_encode(delta_in)
    /\ delta_pc' = "encoded"
    /\ UNCHANGED <<delta_in, delta_out, docsetVars, buildVars, readerVars>>

DeltaDecode ==
    /\ delta_pc = "encoded"
    /\ delta_out' = delta_decode(delta_bytes)
    /\ delta_pc' = "decoded"
    /\ UNCHANGED <<delta_in, delta_bytes, docsetVars, buildVars, readerVars>>

DeltaNext == DeltaEncode \/ DeltaDecode

SpecDelta == DeltaInit /\ [][DeltaNext]_vars

----------------------------------------------------------------------------
(* One DocSet: any appends, then encode, then decode of the bytes *)

MaxAppends == 3
DocIds == {0, 255, 16639}
Positions == {0, 1, 254, 255, 256}

DocSetInit ==
    /\ ds_pc = "open" /\ docs_list = <<>>
    /\ encoded = Ok(<<>>) /\ decoded = Ok(<<>>)
    /\ CodecIdle /\ BuildIdle /\ ReaderIdle

\* the number of append calls made on the DocSet
Appended(dl) == Len(encode_pairs(dl, <<>>, 1, Len(dl)))

DsAppend ==
    /\ ds_pc = "open"
    /\ Appended(docs_list) < MaxAppends
    /\ \E docid \in DocIds, position \in Positions :
          docs_list' = DocSet_append(docs_list, docid, position)
    /\ UNCHANGED <<ds_pc, encoded, decoded, codecVars, buildVars, readerVars>>

DsEncode ==
    /\ ds_pc = "open"
    /\ encoded' = DocSet_encode(docs_list)
    /\ ds_pc' = IF encoded'.err = "none" THEN "encoded" ELSE "failed"
    /\ UNCHANGED <<docs_list, decoded, codecVars, buildVars, readerVars>>

DsDecode ==
    /\ ds_pc = "encoded"
    /\ decoded' = DocSet_decode(encoded.val)
    /\ ds_pc' = "decoded"
    /\ UNCHANGED <<docs_list, encoded, codecVars, buildVars, readerVars>>

DocSetNext == DsAppend \/ DsEncode \/ DsDecode

SpecDocSet == DocSetInit /\ [][DocSetNext]_vars

----------------------------------------------------------------------------
(* The sources given to Index.create *)

MaxDocs == 3
MaxCalls == 2

Word_cat == <<"c", "a", "t">>
Word_dog == <<"d", "o", "g">>
Word_Dog == <<"D", "o", "g">>
Word_ant == <<"a", "n", "t">>
Word_ca == <<"c", "a">>
Word_nu == <<"ñ", "u">>

Title_cat == <<"c", "a", "t">>
Title_a_b == <<"a", " ", "b">>
Title_x == <<"x">>
Title_empty == <<>>
Title_nu == <<"ñ", "u">>
Title_ss == <<"ß">>
Title_y == <<"ÿ", " ", "é">>
File_o == <<"o">>

Entry(words, page_score, filename, title) ==
    [words |-> words, page_score |-> page_score, data |-> <<filename, title>>]

\* the entries of the small sources: an absent, a derivable and another
\* explicit filename; titles of one and of several characters, with a space
\* and empty; word lists that are empty, repeat a word and share words
ValidEntries ==
    << Entry(<<Word_cat, Word_dog, Word_cat>>, 2, None, Title_cat),
       Entry(<<Word_dog>>, 1, to_filename(Title_a_b).val, Title_a_b),
       Entry(<<Word_cat>>, 2, File_o, Title_x),
       Entry(<<>>, 3, to_filename(Title_x).val, Title_x) >>
InvalidEntries ==
    << Entry(<<Word_dog>>, 1, File_o, Title_empty),
       Entry(<<Word_cat>>, 3, None, Title_empty) >>
Entries == {ValidEntries[n] : n \in 1..Len(ValidEntries)} \cup
           {InvalidEntries[n] : n \in 1..Len(InvalidEntries)}

SmallSources == UNION {[1..n -> Entries] : n \in 0..MaxDocs}

\* sources that fill whole pages: n entries that cycle through ValidEntries
LargeSizes == {PAGE_SIZE, PAGE_SIZE + 1, 2 * PAGE_SIZE, 2 * PAGE_SIZE + 1}
LargeSource(n) == [k \in 1..n |-> ValidEntries[(k % Len(ValidEntries)) + 1]]

\* sources with an entry of n words, n the largest byte value or one more
WideEntry(n) ==
    Entry([k \in 1..n |-> IF k % 2 = 1 THEN Word_cat ELSE Word_dog], 2, File_o, Title_x)
WideSources ==
    UNION {{ <<WideEntry(n)>>, <<ValidEntries[1], WideEntry(n)>>,
             <<WideEntry(n), ValidEntries[2]>> } : n \in {BYTE_MAX, BYTE_MAX + 1}}

\* sources with titles whose first character str.upper() changes into a
\* character beyond ASCII or into two characters, and with words whose
\* order in the index is not the order they are met in
UnicodeSources ==
    { << Entry(<<Word_dog, Word_Dog, Word_nu, Word_ant>>, 2,
               to_filename(Title_nu).val, Title_nu) >>,
      << Entry(<<Word_nu, Word_cat>>, 1, None, Title_ss),
         Entry(<<Word_Dog, Word_cat>>, 3, File_o, Title_y) >> }

Sources == SmallSources \cup {LargeSource(n) : n \in LargeSizes} \cup WideSources
           \cup UnicodeSources

\* the docids asked of the reader
QueryDocids == {-1, 0, 1, 2} \cup
               {k * PAGE_SIZE + e : k \in 1..2, e \in {-1, 0, 1}}

----------------------------------------------------------------------------
(* Index.create, step by step *)

\* create up to the call of order_source: the database is created empty
Init ==
    /\ source \in Sources
    /\ pc = "order" /\ src_pos = 0
    /\ ordered_source = <<>> /\ gen = <<>> /\ page_ant = -1
    /\ docs_table = NewSQLmany /\ idx_dict = <<>>
    /\ token_store = NewSQLmany /\ token_pos = 0
    /\ dict_stats = [Indexed |-> 0, Documents |-> 0, Tokens |-> 0]
    /\ docs = <<>> /\ tokens = <<>>
    /\ create_ret = Ok(None) /\ docsrc = <<>>
    /\ CodecIdle /\ DocSetIdle /\ ReaderIdle

\* a faulty normalisation: the filename is always kept
order_data_Keep(data, filename) == data

\* order_source: "if data[0] == to_filename(data[1]): data[0] = None"
order_data(data, filename) ==
    IF data[1] = filename THEN [data EXCEPT ![1] = None] ELSE data

\* an exception leaves create
Fail(e) == pc' = "failed" /\ create_ret' = Raise(e)

\* order_source: one iteration of "for quant, (words, page_score, data)".
\* The field src of a value is history: the index of the entry in the source.
OrderEntry ==
    /\ pc = "order"
    /\ src_pos < Len(source)
    /\ LET e == source[src_pos + 1]
           fn == to_filename(e.data[2])
           data == order_data(e.data, fn.val)
           value == [words |-> e.words, page_score |-> e.page_score,
                     data |-> data, src |-> src_pos + 1]
       IN  IF fn.err # "none"
           THEN /\ Fail(fn.err)
                /\ UNCHANGED <<src_pos, ordered_source>>
           ELSE /\ ordered_source' =
                       DictListAppend(ordered_source, e.page_score, value)
                /\ src_pos' = src_pos + 1
                /\ UNCHANGED <<pc, create_ret>>
    /\ UNCHANGED <<source, gen, page_ant, docs_table, idx_dict, token_store,
                   token_pos, dict_stats, docs, tokens, docsrc>>
    /\ UNCHANGED <<codecVars, docsetVars, readerVars>>

\* order_source returns; add_docs_keys starts on gen_ordered(ordered_source)
OrderDone ==
    /\ pc = "order"
    /\ src_pos = Len(source)
    /\ gen' = gen_ordered(ordered_source)
    /\ pc' = "add_docs"
    /\ page_ant' = -1
    /\ docs_table' = NewSQLmany
    /\ idx_dict' = <<>>
    /\ UNCHANGED <<source, src_pos, ordered_source, token_store, token_pos,
                   dict_stats, docs, tokens, create_ret, docsrc>>
    /\ UNCHANGED <<codecVars, docsetVars, readerVars>>

\* add_docs_keys: one iteration of "for words, page_score, data in source"
AddDoc ==
    /\ pc = "add_docs"
    /\ gen # <<>>
    /\ LET v == Head(gen)
           data == Append(v.data, v.page_score)
           app == SQLmany_append(docs_table,
                     [word_quant |-> Len(v.words), data |-> data], docs, TRUE)
           docid == app.st.count - 1
       IN  /\ page_ant' = v.page_score
           /\ docs_table' = app.st
           /\ IF app.table.err # "none"
              THEN /\ Fail(app.table.err)
                   /\ UNCHANGED <<gen, idx_dict, docs, docsrc>>
              ELSE /\ docs' = app.table.val
                   /\ idx_dict' = add_words(idx_dict, v.words, docid,
                                            1, Len(v.words))
                   /\ gen' = Tail(gen)
                   /\ docsrc' = Append(docsrc, v.src)
                   /\ UNCHANGED <<pc, create_ret>>
    /\ UNCHANGED <<source, src_pos, ordered_source, token_store, token_pos,
                   dict_stats, tokens>>
    /\ UNCHANGED <<codecVars, docsetVars, readerVars>>

\* add_docs_keys: docs_table.finish() and the return of idx_dict;
\* add_tokens_to_db starts
DocsFinish ==
    /\ pc = "add_docs"
    /\ gen = <<>>
    /\ LET res == SQLmany_finish(docs_table, docs, TRUE)
       IN  IF res.err # "none"
           THEN /\ Fail(res.err)
                /\ UNCHANGED <<docs, dict_stats, token_store, token_pos>>
           ELSE /\ docs' = res.val
                /\ dict_stats' = [dict_stats EXCEPT !.Documents = docs_table.count]
                /\ token_store' = NewSQLmany
                /\ token_pos' = 1
                /\ pc' = "tokens"
                /\ UNCHANGED create_ret
    /\ UNCHANGED <<source, src_pos, ordered_source, gen, page_ant, docs_table,
                   idx_dict, tokens, docsrc>>
    /\ UNCHANGED <<codecVars, docsetVars, readerVars>>

\* add_tokens_to_db: one iteration of "for word, docs_list in idx_dict.items()"
AddToken ==
    /\ pc = "tokens"
    /\ token_pos <= Len(idx_dict)
    /\ LET item == idx_dict[token_pos]
           app == SQLmany_append(token_store,
                     [word |-> item.key, docset |-> item.val], tokens, FALSE)
       IN  /\ dict_stats' = [dict_stats EXCEPT
                                !.Indexed = @ + DocSet_len(item.val)]
           /\ token_store' = app.st
           /\ IF app.table.err # "none"
              THEN /\ Fail(app.table.err)
                   /\ UNCHANGED <<tokens, token_pos>>
              ELSE /\ tokens' = app.table.val
                   /\ token_pos' = token_pos + 1
                   /\ UNCHANGED <<pc, create_ret>>
    /\ UNCHANGED <<source, src_pos, ordered_source, gen, page_ant, docs_table,
                   idx_dict, docs, docsrc>>
    /\ UNCHANGED <<codecVars, docsetVars, readerVars>>

\* add_tokens_to_db: token_store.finish(); then create_indexes and the
\* return of dict_stats["Indexed"]
TokensFinish ==
    /\ pc = "tokens"
    /\ token_pos > Len(idx_dict)
    /\ LET res == SQLmany_finish(token_store, tokens, FALSE)
       IN  IF res.err # "none"
           THEN /\ Fail(res.err)
                /\ UNCHANGED <<tokens, dict_stats>>
           ELSE /\ tokens' = res.val
                /\ dict_stats' = [dict_stats EXCEPT !.Tokens = token_store.count]
                /\ pc' = "done"
                /\ create_ret' = Ok(dict_stats.Indexed)
    /\ UNCHANGED <<source, src_pos, ordered_source, gen, page_ant, docs_table,
                   idx_dict, token_store, token_pos, docs, docsrc>>
    /\ UNCHANGED <<codecVars, docsetVars, readerVars>>

----------------------------------------------------------------------------
(* The reader: Index objects opened on the directory of a completed build *)

\* the Index object of the specifications with one reader
Self == 1

\* functools.lru_cache: the entries are kept least recently used first; the
\* key of an entry is the tuple of the arguments of the call, self included
lru_has(cache, key) == \E n \in 1..Len(cache) : cache[n].key = key
\* a faulty lookup: the value of the oldest entry
lru_get_Oldest(cache, key) == cache[1].val

lru_get(cache, key) == cache[CHOOSE n \in 1..Len(cache) : cache[n].key = key].val
\* a hit makes the entry the most recently used
lru_touch(cache, key) ==
    LET at == CHOOSE n \in 1..Len(cache) : cache[n].key = key
    IN  SubSeq(cache, 1, at - 1) \o SubSeq(cache, at + 1, Len(cache)) \o <<cache[at]>>
\* a faulty store: a full cache grows
lru_put_Unbounded(cache, key, val, maxsize) ==
    Append(cache, [key |-> key, val |-> val])

\* a miss stores the result, in the place of the oldest entry when full
lru_put(cache, key, val, maxsize) ==
    IF Len(cache) >= maxsize
    THEN Append(Tail(cache), [key |-> key, val |-> val])
    ELSE Append(cache, [key |-> key, val |-> val])

\* the body of Index._get_page: the decoded page, or None
get_page_query(table, pageid) ==
    IF \E n \in 1..Len(table) : table[n].pageid = pageid
    THEN decompress_data(
            table[CHOOSE n \in 1..Len(table) : table[n].pageid = pageid].data)
    ELSE None

\* a faulty cache: the key is the pageid alone
get_page_SharedKey(cache, table, self, pageid) ==
    LET key == <<0, pageid>>
        hit == lru_has(cache, key)
        data == IF hit THEN lru_get(cache, key) ELSE get_page_query(table, pageid)
    IN  [data |-> data,
         cache |-> IF hit THEN lru_touch(cache, key)
                   ELSE lru_put(cache, key, data, PAGE_CACHE_SIZE),
         read |-> ~hit]

\* Index._get_page under lru_cache(1000): [data |-> the page or None,
\* cache |-> the cache after the call, read |-> was the docs table read]
get_page(cache, table, self, pageid) ==
    LET key == <<self, pageid>>
        hit == lru_has(cache, key)
        data == IF hit THEN lru_get(cache, key) ELSE get_page_query(table, pageid)
    IN  [data |-> data,
         cache |-> IF hit THEN lru_touch(cache, key)
                   ELSE lru_put(cache, key, data, PAGE_CACHE_SIZE),
         read |-> ~hit]

\* a faulty length: every page counted as full
len_query_PagesOnly(table) ==
    IF Len(table) = 0 THEN Raise("TypeError")
    ELSE LET row == table[CHOOSE n \in 1..Len(table) :
                            \A m \in 1..Len(table) : table[m].pageid <= table[n].pageid]
         IN  Ok((row.pageid + 1) * PAGE_SIZE)

\* the body of Index.__len__: Ok(length) or Raise("TypeError") on no row
len_query(table) ==
    IF Len(table) = 0 THEN Raise("TypeError")
    ELSE LET row == table[CHOOSE n \in 1..Len(table) :
                            \A m \in 1..Len(table) : table[m].pageid <= table[n].pageid]
         IN  Ok(row.pageid * PAGE_SIZE + Len(decompress_data(row.data)))

\* Index.__len__ under lru_cache(1): [res |-> Ok(length) or Raise(e),
\* cache |-> the cache after the call, read |-> was the docs table read];
\* a call that raises stores nothing
Index_len(cache, table, self) ==
    LET key == <<self>>
        hit == lru_has(cache, key)
        res == IF hit THEN Ok(lru_get(cache, key)) ELSE len_query(table)
    IN  [res |-> res,
         cache |-> IF hit THEN lru_touch(cache, key)
                   ELSE IF res.err = "none"
                   THEN lru_put(cache, key, res.val, LEN_CACHE_SIZE)
                   ELSE cache,
         read |-> ~hit]

\* Index.get_doc on the page data: [res |-> Ok(row), Ok(None) or Raise(e),
\* data |-> the page after the filename was stored in the row]
get_doc_row(data, rel_position) ==
    IF data = None \/ Len(data) = 0 THEN [res |-> Ok(None), data |-> data]
    ELSE IF rel_position + 1 > Len(data)
    THEN [res |-> Raise("IndexError"), data |-> data]
    ELSE LET row == data[rel_position + 1]
             fn == to_filename(row[2])
         IN  IF row[1] = None
             THEN IF fn.err # "none"
                  THEN [res |-> Raise(fn.err), data |-> data]
                  ELSE [res |-> Ok([row EXCEPT ![1] = fn.val]),
                        data |-> [data EXCEPT ![rel_position + 1][1] = fn.val]]
             ELSE [res |-> Ok(row), data |-> data]

\* Index.get_doc(docid): [res, cache, read]; the page of the cache is the
\* object whose row gets the filename
get_doc(cache, table, self, docid) ==
    LET page_id == docid \div PAGE_SIZE
        rel_position == docid % PAGE_SIZE
        page == get_page(cache, table, self, page_id)
        got == get_doc_row(page.data, rel_position)
    IN  [res |-> got.res,
         cache |-> [page.cache EXCEPT ![Len(page.cache)].val = got.data],
         read |-> page.read]

\* the printable characters of ASCII and of Latin-1 in code point order:
\* U+0020..U+007E, U+00A1..U+00AC and U+00AE..U+00FF
Ascii == << " ", "!", "\"", "#", "$", "%", "&", "'", "(", ")", "*", "+", ",",
            "-", ".", "/", "0", "1", "2", "3", "4", "5", "6", "7", "8", "9",
            ":", ";", "<", "=", ">", "?", "@", "A", "B", "C", "D", "E", "F",
            "G", "H", "I", "J", "K", "L", "M", "N", "O", "P", "Q", "R", "S",
            "T", "U", "V", "W", "X", "Y", "Z", "[", "\\", "]", "^", "_", "U+0060",
            "a", "b", "c", "d", "e", "f", "g", "h", "i", "j", "k", "l", "m",
            "n", "o", "p", "q", "r", "s", "t", "u", "v", "w", "x", "y", "z",
            "{", "|", "}", "~" >>
Latin1Low == << "¡", "¢", "£", "¤", "¥", "¦", "§", "¨", "©", "ª", "«", "¬" >>
Latin1High == << "®", "¯", "°", "±", "²", "³", "´", "µ", "¶", "·", "¸", "¹",
                 "º", "»", "¼", "½", "¾", "¿", "À", "Á", "Â", "Ã", "Ä", "Å",
                 "Æ", "Ç", "È", "É", "Ê", "Ë", "Ì", "Í", "Î", "Ï", "Ð", "Ñ",
                 "Ò", "Ó", "Ô", "Õ", "Ö", "×", "Ø", "Ù", "Ú", "Û", "Ü", "Ý",
                 "Þ", "ß", "à", "á", "â", "ã", "ä", "å", "æ", "ç", "è", "é",
                 "ê", "ë", "ì", "í", "î", "ï", "ð", "ñ", "ò", "ó", "ô", "õ",
                 "ö", "÷", "ø", "ù", "ú", "û", "ü", "ý", "þ", "ÿ" >>

\* ord(c), for the characters above
ord(c) ==
    LET at(chars) == CHOOSE n \in 1..Len(chars) : chars[n] = c
        among(chars) == \E n \in 1..Len(chars) : chars[n] = c
    IN  IF among(Ascii) THEN 31 + at(Ascii)
        ELSE IF among(Latin1Low) THEN 160 + at(Latin1Low)
        ELSE 173 + at(Latin1High)

\* a before b in the BINARY collation of SQLite: memcmp of the UTF-8 bytes,
\* which is the order of the code points, a proper prefix first
binary_less(a, b) ==
    LET shorter == IF Len(a) < Len(b) THEN Len(a) ELSE Len(b)
        differ == {n \in 1..shorter : a[n] # b[n]}
    IN  IF differ = {} THEN Len(a) < Len(b)
        ELSE LET n == CHOOSE m \in differ : \A k \in differ : m <= k
             IN  ord(a[n]) < ord(b[n])

\* Index.keys: "SELECT word FROM tokens" scans the covering index
\* idx_words, so every row gives its word, in the order of the words
keys_query(table) ==
    LET words == {table[n].word : n \in 1..Len(table)}
        rank == [w \in words |-> Cardinality({v \in words : binary_less(v, w)})]
        sorted == [k \in 1..Cardinality(words) |->
                      CHOOSE w \in words : rank[w] = k - 1]
        rows(w) == Cardinality({n \in 1..Len(table) : table[n].word = w})
        RECURSIVE scan_index(_, _)
        scan_index(lo, hi) ==
            IF lo > hi THEN <<>>
            ELSE IF lo = hi THEN [n \in 1..rows(sorted[lo]) |-> sorted[lo]]
            ELSE scan_index(lo, (lo + hi) \div 2)
                 \o scan_index((lo + hi) \div 2 + 1, hi)
    IN  scan_index(1, Cardinality(words))

\* a faulty membership test: a stored word that starts like the key matches
contains_query_Prefix(table, key) ==
    \E n \in 1..Len(table) :
        /\ Len(key) <= Len(table[n].word)
        /\ SubSeq(table[n].word, 1, Len(key)) = key

\* Index.__contains__: "SELECT word FROM tokens where word = ?"
contains_query(table, key) ==
    \E n \in 1..Len(table) : table[n].word = key

\* the pages in the order of "ORDER BY pageid"
RECURSIVE pages_by_pageid(_, _)
pages_by_pageid(table, above) ==
    LET rest == {n \in 1..Len(table) : table[n].pageid > above}
    IN  IF rest = {} THEN <<>>
        ELSE LET n == CHOOSE m \in rest :
                         \A k \in rest : table[m].pageid <= table[k].pageid
             IN  <<table[n]>> \o pages_by_pageid(table, table[n].pageid)

\* a faulty iteration: the pages in descending order
values_rows_Descending(table) ==
    LET rows == pages_by_pageid(table, -1)
    IN  [n \in 1..Len(rows) |-> rows[Len(rows) + 1 - n]]

\* Index.values: the rows of "SELECT pageid, data FROM docs ORDER BY pageid"
values_rows(table) == pages_by_pageid(table, -1)

\* the records a generator of values() has yielded so far
RECURSIVE values_yielded_upto(_, _)
values_yielded_upto(rows, row) ==
    IF row = 0 THEN 0
    ELSE Len(decompress_data(rows[row].data)) + values_yielded_upto(rows, row - 1)
values_yielded(g) ==
    IF g.row = 0 THEN 0
    ELSE IF g.row > Len(g.rows) THEN values_yielded_upto(g.rows, Len(g.rows))
    ELSE values_yielded_upto(g.rows, g.row - 1) + g.doc

\* next(g) on a generator of Index.values: [gen |-> the generator after,
\* res |-> Ok(doc) or Raise("StopIteration"), read |-> was the SELECT run].
\* The first next() runs the SELECT and fetchall(); every next() goes on in
\* "for doc in decomp_data" and, at the end of a page, in "for row in"
values_next(g, table) ==
    LET rows == IF g.pc = "created" THEN values_rows(table) ELSE g.rows
        RECURSIVE resume(_, _)
        resume(row, doc) ==
            IF row > Len(rows) THEN [row |-> row, doc |-> 0]
            ELSE IF row >= 1 /\ doc < Len(decompress_data(rows[row].data))
            THEN [row |-> row, doc |-> doc + 1]
            ELSE resume(row + 1, 0)
        at == resume(g.row, g.doc)
    IN  IF g.pc = "finished"
        THEN [gen |-> g, res |-> Raise("StopIteration"), read |-> FALSE]
        ELSE IF at.row > Len(rows)
        THEN [gen |-> [pc |-> "finished", rows |-> rows, row |-> at.row, doc |-> 0],
              res |-> Raise("StopIteration"), read |-> g.pc = "created"]
        ELSE [gen |-> [pc |-> "running", rows |-> rows, row |-> at.row,
                       doc |-> at.doc],
              res |-> Ok(decompress_data(rows[at.row].data)[at.doc]),
              read |-> g.pc = "created"]

MaxQueries == 2

\* the words asked of __contains__: the indexed ones and a prefix of one
ContainsKeys == {Word_cat, Word_dog, Word_ca, Word_nu}

MaxRandomCalls == 1

\* a faulty draw: the upper end n included
RandomDraws_Inclusive(n) == 0..n

\* the docids random.randint(0, n - 1) can draw: every one of 0..n-1
RandomDraws(n) == 0..(n - 1)

\* what every reader call leaves alone
ReaderFrame ==
    UNCHANGED <<buildVars, codecVars, docsetVars, threadVars, dirs, values_gen>>

\* one call self.get_doc(docid), made as part of the reader call op
GetDocBy(self, docid, op) ==
    LET got == get_doc(page_cache, docs, self, docid)
    IN  /\ page_cache' = got.cache
        /\ page_reads' = IF got.read
                         THEN Append(page_reads, <<self, docid \div PAGE_SIZE>>)
                         ELSE page_reads
        /\ call' = [op |-> op, self |-> self, arg |-> docid,
                    res |-> got.res, read |-> got.read]

\* Index.get_doc(docid)
GetDoc ==
    /\ pc = "done"
    /\ ncalls < MaxCalls
    /\ \E docid \in QueryDocids : GetDocBy(Self, docid, "get_doc")
    /\ ncalls' = ncalls + 1
    /\ UNCHANGED <<len_cache, len_reads, scan>>
    /\ ReaderFrame

\* len(index)
LenCall ==
    /\ pc = "done"
    /\ ncalls < MaxCalls
    /\ LET got == Index_len(len_cache, docs, Self)
       IN  /\ len_cache' = got.cache
           /\ len_reads' = IF got.read THEN Append(len_reads, Self) ELSE len_reads
           /\ call' = [op |-> "len", self |-> Self, arg |-> 0,
                       res |-> got.res, read |-> got.read]
    /\ ncalls' = ncalls + 1
    /\ UNCHANGED <<page_cache, page_reads, scan>>
    /\ ReaderFrame

\* index.keys()
KeysCall ==
    /\ pc = "done"
    /\ ncalls < MaxQueries
    /\ call' = [op |-> "keys", self |-> Self, arg |-> 0,
                res |-> Ok(keys_query(tokens)), read |-> TRUE]
    /\ ncalls' = ncalls + 1
    /\ UNCHANGED <<page_cache, len_cache, len_reads, page_reads, scan>>
    /\ ReaderFrame

\* key in index
ContainsCall ==
    /\ pc = "done"
    /\ ncalls < MaxQueries
    /\ \E key \in ContainsKeys :
          call' = [op |-> "contains", self |-> Self, arg |-> key,
                   res |-> Ok(contains_query(tokens, key)), read |-> TRUE]
    /\ ncalls' = ncalls + 1
    /\ UNCHANGED <<page_cache, len_cache, len_reads, page_reads, scan>>
    /\ ReaderFrame

\* g = index.values(): the generator is created, none of its code has run
ValuesCall ==
    /\ pc = "done"
    /\ ncalls < MaxQueries
    /\ values_gen' = [pc |-> "created", rows |-> <<>>, row |-> 0, doc |-> 0]
    /\ call' = [op |-> "values", self |-> Self, arg |-> 0,
                res |-> Ok(<<"generator">>), read |-> FALSE]
    /\ ncalls' = ncalls + 1
    /\ UNCHANGED <<page_cache, len_cache, len_reads, page_reads, scan>>
    /\ UNCHANGED <<buildVars, codecVars, docsetVars, threadVars, dirs>>

\* next(g): the generator runs up to its next yield or to its end; arg is
\* the number of records it had yielded before
ValuesNext ==
    /\ pc = "done"
    /\ values_gen.pc # "none"
    /\ LET got == values_next(values_gen, docs)
       IN  /\ values_gen' = got.gen
           /\ call' = [op |-> "next", self |-> Self,
                       arg |-> values_yielded(values_gen),
                       res |-> got.res, read |-> got.read]
    /\ UNCHANGED <<page_cache, len_cache, len_reads, page_reads, scan, ncalls>>
    /\ UNCHANGED <<buildVars, codecVars, docsetVars, threadVars, dirs>>

\* index.random(): len(self), the draw, then get_doc of the docid drawn
RandomCall ==
    /\ pc = "done"
    /\ ncalls < MaxRandomCalls
    /\ LET n == Index_len(len_cache, docs, Self)
       IN  /\ len_cache' = n.cache
           /\ len_reads' = IF n.read THEN Append(len_reads, Self) ELSE len_reads
           /\ IF n.res.err # "none"
              THEN /\ call' = [op |-> "random", self |-> Self, arg |-> 0,
                               res |-> n.res, read |-> n.read]
                   /\ UNCHANGED <<page_cache, page_reads>>
              ELSE \E docid \in RandomDraws(n.res.val) :
                      GetDocBy(Self, docid, "random")
    /\ ncalls' = ncalls + 1
    /\ UNCHANGED scan
    /\ ReaderFrame

Next ==
    \/ OrderEntry \/ OrderDone \/ AddDoc \/ DocsFinish \/ AddToken
    \/ TokensFinish \/ GetDoc \/ LenCall

Spec == Init /\ [][Next]_vars

\* the sources of the indexes asked for their keys and values: the small
\* ones and one of two pages, the second page with one record
QuerySources ==
    SmallSources \cup UnicodeSources \cup {LargeSource(PAGE_SIZE + 1)}

QueriesInit ==
    /\ source \in QuerySources
    /\ pc = "order" /\ src_pos = 0
    /\ ordered_source = <<>> /\ gen = <<>> /\ page_ant = -1
    /\ docs_table = NewSQLmany /\ idx_dict = <<>>
    /\ token_store = NewSQLmany /\ token_pos = 0
    /\ dict_stats = [Indexed |-> 0, Documents |-> 0, Tokens |-> 0]
    /\ docs = <<>> /\ tokens = <<>>
    /\ create_ret = Ok(None) /\ docsrc = <<>>
    /\ CodecIdle /\ DocSetIdle /\ ReaderIdle

\* the reader used for keys(), contains and values(): the calls of keys()
\* and contains come before, between and after the next() of the generator
QueriesNext ==
    \/ OrderEntry \/ OrderDone \/ AddDoc \/ DocsFinish \/ AddToken
    \/ TokensFinish \/ KeysCall \/ ContainsCall \/ ValuesCall \/ ValuesNext

SpecQueries == QueriesInit /\ [][QueriesNext]_vars

\* a source of n entries without words, every other one stored without
\* its filename
PlainSource(n) ==
    [k \in 1..n |-> IF k % 2 = 1 THEN Entry(<<>>, 1, File_o, Title_x)
                    ELSE Entry(<<>>, 2, None, Title_x)]

\* the sources of the indexes asked for a random record: the small ones
\* and one of two pages, the second page with one record
RandomSources ==
    SmallSources \cup UnicodeSources \cup {PlainSource(PAGE_SIZE + 1)}

RandomInit ==
    /\ source \in RandomSources
    /\ pc = "order" /\ src_pos = 0
    /\ ordered_source = <<>> /\ gen = <<>> /\ page_ant = -1
    /\ docs_table = NewSQLmany /\ idx_dict = <<>>
    /\ token_store = NewSQLmany /\ token_pos = 0
    /\ dict_stats = [Indexed |-> 0, Documents |-> 0, Tokens |-> 0]
    /\ docs = <<>> /\ tokens = <<>>
    /\ create_ret = Ok(None) /\ docsrc = <<>>
    /\ CodecIdle /\ DocSetIdle /\ ReaderIdle

\* the reader used for random()
RandomNext ==
    \/ OrderEntry \/ OrderDone \/ AddDoc \/ DocsFinish \/ AddToken
    \/ TokensFinish \/ RandomCall

SpecRandom == RandomInit /\ [][RandomNext]_vars

----------------------------------------------------------------------------
(* One reader whose page cache gets full: a client that calls get_doc a    *)
(* few times, then once for each of the pages 1..ScanPages in turn, then a  *)
(* few times again                                                          *)

MaxProbes == 2
ScanPages == PAGE_CACHE_SIZE

\* indexes of one page with records stored without their filename
CacheSources ==
    { <<ValidEntries[1], ValidEntries[3]>>,
      <<ValidEntries[4], ValidEntries[2], ValidEntries[1]>> }

\* the docids of the calls around the scan: of page 0, of the first page
\* scanned and of the page after the last one scanned
ProbeDocids == {0, PAGE_SIZE, (ScanPages + 1) * PAGE_SIZE}

CacheInit ==
    /\ source \in CacheSources
    /\ pc = "order" /\ src_pos = 0
    /\ ordered_source = <<>> /\ gen = <<>> /\ page_ant = -1
    /\ docs_table = NewSQLmany /\ idx_dict = <<>>
    /\ token_store = NewSQLmany /\ token_pos = 0
    /\ dict_stats = [Indexed |-> 0, Documents |-> 0, Tokens |-> 0]
    /\ docs = <<>> /\ tokens = <<>>
    /\ create_ret = Ok(None) /\ docsrc = <<>>
    /\ CodecIdle /\ DocSetIdle /\ ReaderIdle

\* Index.get_doc(docid) before or after the scan
ProbeDoc ==
    /\ pc = "done"
    /\ ncalls < MaxProbes
    /\ scan \in {0, ScanPages}
    /\ \E docid \in ProbeDocids : GetDocBy(Self, docid, "get_doc")
    /\ ncalls' = ncalls + 1
    /\ UNCHANGED <<len_cache, len_reads, scan>>
    /\ ReaderFrame

\* Index.get_doc(docid) of the scan: the first docid of the next page
ScanDoc ==
    /\ pc = "done"
    /\ scan < ScanPages
    /\ GetDocBy(Self, (scan + 1) * PAGE_SIZE, "get_doc")
    /\ scan' = scan + 1
    /\ UNCHANGED <<len_cache, len_reads, ncalls>>
    /\ ReaderFrame

CacheNext ==
    \/ OrderEntry \/ OrderDone \/ AddDoc \/ DocsFinish \/ AddToken
    \/ TokensFinish \/ ProbeDoc \/ ScanDoc

SpecCache == CacheInit /\ [][CacheNext]_vars

----------------------------------------------------------------------------
(* Several Index objects of one process, opened on the directory of the     *)
(* completed build: the caches of __len__ and _get_page belong to the       *)
(* functions, so all the objects share them                                 *)

MaxReaders == 2
MaxLenCalls == 3

Readers == 1..MaxReaders

\* the small sources of valid entries, one entry at least
ReaderSources ==
    UNION {[1..n -> {ValidEntries[k] : k \in 1..Len(ValidEntries)}] :
              n \in 1..2}

ReadersInit ==
    /\ source \in ReaderSources
    /\ pc = "order" /\ src_pos = 0
    /\ ordered_source = <<>> /\ gen = <<>> /\ page_ant = -1
    /\ docs_table = NewSQLmany /\ idx_dict = <<>>
    /\ token_store = NewSQLmany /\ token_pos = 0
    /\ dict_stats = [Indexed |-> 0, Documents |-> 0, Tokens |-> 0]
    /\ docs = <<>> /\ tokens = <<>>
    /\ create_ret = Ok(None) /\ docsrc = <<>>
    /\ CodecIdle /\ DocSetIdle /\ ReaderIdle

\* len(index) on one of the Index objects
ReaderLen ==
    /\ pc = "done"
    /\ ncalls < MaxLenCalls
    /\ \E self \in Readers :
          LET got == Index_len(len_cache, docs, self)
          IN  /\ len_cache' = got.cache
              /\ len_reads' = IF got.read THEN Append(len_reads, self)
                              ELSE len_reads
              /\ call' = [op |-> "len", self |-> self, arg |-> 0,
                          res |-> got.res, read |-> got.read]
    /\ ncalls' = ncalls + 1
    /\ UNCHANGED <<page_cache, page_reads, scan>>
    /\ ReaderFrame

ReadersNext ==
    \/ OrderEntry \/ OrderDone \/ AddDoc \/ DocsFinish \/ AddToken
    \/ TokensFinish \/ ReaderLen

SpecReaders == ReadersInit /\ [][ReadersNext]_vars

----------------------------------------------------------------------------
(* Threads that call get_doc on one Index. A decoded page is an object of  *)
(* the heap: the cache and the locals of the threads hold references to it, *)
(* and the filename is stored in the row of the object itself. A thread is  *)
(* preempted between the cache lookup of _get_page, the end of its body,    *)
(* the test of row[0] and the assignment to row[0].                         *)

ThreadDocids == {0, 1, PAGE_SIZE}

ThreadsInit == CacheInit

\* the variables of the reader calls that are made one at a time
CallVars == <<page_cache, len_cache, call, ncalls, len_reads, page_reads, scan,
              values_gen>>
ThreadFrame == UNCHANGED <<buildVars, codecVars, docsetVars, CallVars, dirs>>

\* a faulty assignment: the row keeps its absent filename
backfill_Skip(row, filename) == row

\* "row[0] = to_filename(row[1])"
backfill(row, filename) == [row EXCEPT ![1] = filename]

\* get_doc(docid) is called in thread t
ThreadCall(t) ==
    /\ pc = "done"
    /\ threads[t].pc = "idle"
    /\ threads[t].calls < MaxThreadCalls
    /\ \E docid \in ThreadDocids :
          threads' = [threads EXCEPT ![t] =
                         [@ EXCEPT !.pc = "lookup", !.docid = docid, !.ref = 0,
                                   !.res = Ok(None), !.wrote = FALSE]]
    /\ UNCHANGED <<heap, page_refs>>
    /\ ThreadFrame

\* _get_page: the lookup of lru_cache; a hit returns the cached object, a
\* miss goes on to the body of _get_page
ThreadLookup(t) ==
    /\ threads[t].pc = "lookup"
    /\ LET key == <<Self, threads[t].docid \div PAGE_SIZE>>
       IN  IF lru_has(page_refs, key)
           THEN /\ threads' = [threads EXCEPT ![t] =
                       [@ EXCEPT !.pc = "test", !.ref = lru_get(page_refs, key)]]
                /\ page_refs' = lru_touch(page_refs, key)
           ELSE /\ threads' = [threads EXCEPT ![t] = [@ EXCEPT !.pc = "body"]]
                /\ UNCHANGED page_refs
    /\ UNCHANGED heap
    /\ ThreadFrame

\* _get_page: the body returns a new object; lru_cache stores it unless the
\* key was stored while the body ran
ThreadBody(t) ==
    /\ threads[t].pc = "body"
    /\ LET page_id == threads[t].docid \div PAGE_SIZE
           key == <<Self, page_id>>
           ref == Len(heap) + 1
       IN  /\ heap' = Append(heap, get_page_query(docs, page_id))
           /\ page_refs' = IF lru_has(page_refs, key) THEN page_refs
                           ELSE lru_put(page_refs, key, ref, PAGE_CACHE_SIZE)
           /\ threads' = [threads EXCEPT ![t] =
                             [@ EXCEPT !.pc = "test", !.ref = ref]]
    /\ ThreadFrame

\* get_doc: "if not data: return None", "row = data[rel_position]" and
\* "if row[0] is None"; a row that has its filename is returned
ThreadTest(t) ==
    /\ threads[t].pc = "test"
    /\ LET data == heap[threads[t].ref]
           rel_position == threads[t].docid % PAGE_SIZE
           Return(res) == [threads EXCEPT ![t] =
                              [@ EXCEPT !.pc = "idle", !.res = res,
                                        !.calls = @ + 1]]
       IN  threads' =
              IF data = None \/ Len(data) = 0 THEN Return(Ok(None))
              ELSE IF rel_position + 1 > Len(data)
              THEN Return(Raise("IndexError"))
              ELSE IF data[rel_position + 1][1] = None
              THEN [threads EXCEPT ![t] = [@ EXCEPT !.pc = "fill"]]
              ELSE Return(Ok(data[rel_position + 1]))
    /\ UNCHANGED <<heap, page_refs>>
    /\ ThreadFrame

\* get_doc: "row[0] = to_filename(row[1])" and "return row"
ThreadFill(t) ==
    /\ threads[t].pc = "fill"
    /\ LET at == (threads[t].docid % PAGE_SIZE) + 1
           row == heap[threads[t].ref][at]
           fn == to_filename(row[2])
       IN  IF fn.err # "none"
           THEN /\ threads' = [threads EXCEPT ![t] =
                       [@ EXCEPT !.pc = "idle", !.res = Raise(fn.err),
                                 !.calls = @ + 1]]
                /\ UNCHANGED heap
           ELSE /\ heap' = [heap EXCEPT ![threads[t].ref][at] =
                                            backfill(row, fn.val)]
                /\ threads' = [threads EXCEPT ![t] =
                       [@ EXCEPT !.pc = "idle", !.wrote = TRUE,
                                 !.res = Ok(heap'[threads[t].ref][at]),
                                 !.calls = @ + 1]]
    /\ UNCHANGED page_refs
    /\ ThreadFrame

ThreadsNext ==
    \/ OrderEntry \/ OrderDone \/ AddDoc \/ DocsFinish \/ AddToken
    \/ TokensFinish
    \/ \E t \in Threads : \/ ThreadCall(t) \/ ThreadLookup(t) \/ ThreadBody(t)
                          \/ ThreadTest(t) \/ ThreadFill(t)

SpecThreads == ThreadsInit /\ [][ThreadsNext]_vars

----------------------------------------------------------------------------
(* Index objects of one process on different directories: Index.create    *)
(* builds a directory, an Index is opened on it, and so on; the Index       *)
(* objects opened so far are called in any order. Index object n reads the  *)
(* database dirs[n].                                                        *)

MaxIndexes == 2
MaxIndexCalls == 2

\* sources of one and of two documents, with different records of docid 0
IndexSources ==
    { <<ValidEntries[1]>>, <<ValidEntries[3], ValidEntries[2]>>,
      <<ValidEntries[4], ValidEntries[1]>> }

IndexDocids == {0, 1}

IndexesInit ==
    /\ source \in IndexSources
    /\ pc = "order" /\ src_pos = 0
    /\ ordered_source = <<>> /\ gen = <<>> /\ page_ant = -1
    /\ docs_table = NewSQLmany /\ idx_dict = <<>>
    /\ token_store = NewSQLmany /\ token_pos = 0
    /\ dict_stats = [Indexed |-> 0, Documents |-> 0, Tokens |-> 0]
    /\ docs = <<>> /\ tokens = <<>>
    /\ create_ret = Ok(None) /\ docsrc = <<>>
    /\ CodecIdle /\ DocSetIdle /\ ReaderIdle

\* Index(directory) on the directory just built; source and docsrc are
\* history: what the directory was built from
OpenIndex ==
    /\ pc = "done"
    /\ Len(dirs) < MaxIndexes
    /\ dirs' = Append(dirs, [docs |-> docs, tokens |-> tokens,
                             source |-> source, docsrc |-> docsrc])
    /\ pc' = "opened"
    /\ UNCHANGED <<source, src_pos, ordered_source, gen, page_ant, docs_table,
                   idx_dict, token_store, token_pos, dict_stats, docs, tokens,
                   create_ret, docsrc>>
    /\ UNCHANGED <<codecVars, docsetVars, CallVars, threadVars>>

\* Index.create on another directory, up to the call of order_source
CreateNext ==
    /\ pc = "opened"
    /\ Len(dirs) < MaxIndexes
    /\ source' \in IndexSources
    /\ pc' = "order" /\ src_pos' = 0
    /\ ordered_source' = <<>> /\ gen' = <<>> /\ page_ant' = -1
    /\ docs_table' = NewSQLmany /\ idx_dict' = <<>>
    /\ token_store' = NewSQLmany /\ token_pos' = 0
    /\ dict_stats' = [Indexed |-> 0, Documents |-> 0, Tokens |-> 0]
    /\ docs' = <<>> /\ tokens' = <<>>
    /\ create_ret' = Ok(None) /\ docsrc' = <<>>
    /\ UNCHANGED <<codecVars, docsetVars, readerVars>>

\* len(index) on one of the Index objects opened
IndexLen ==
    /\ ncalls < MaxIndexCalls
    /\ \E self \in 1..Len(dirs) :
          LET got == Index_len(len_cache, dirs[self].docs, self)
          IN  /\ len_cache' = got.cache
              /\ len_reads' = IF got.read THEN Append(len_reads, self)
                              ELSE len_reads
              /\ call' = [op |-> "len", self |-> self, arg |-> 0,
                          res |-> got.res, read |-> got.read]
    /\ ncalls' = ncalls + 1
    /\ UNCHANGED <<page_cache, page_reads, scan>>
    /\ ReaderFrame

\* index.get_doc(docid) on one of the Index objects opened
IndexGetDoc ==
    /\ ncalls < MaxIndexCalls
    /\ \E self \in 1..Len(dirs), docid \in IndexDocids :
          LET got == get_doc(page_cache, dirs[self].docs, self, docid)
          IN  /\ page_cache' = got.cache
              /\ page_reads' =
                    IF got.read
                    THEN Append(page_reads, <<self, docid \div PAGE_SIZE>>)
                    ELSE page_reads
              /\ call' = [op |-> "get_doc", self |-> self, arg |-> docid,
                          res |-> got.res, read |-> got.read]
    /\ ncalls' = ncalls + 1
    /\ UNCHANGED <<len_cache, len_reads, scan>>
    /\ ReaderFrame

IndexesNext ==
    \/ OrderEntry \/ OrderDone \/ AddDoc \/ DocsFinish \/ AddToken
    \/ TokensFinish \/ OpenIndex \/ CreateNext \/ IndexLen \/ IndexGetDoc

SpecIndexes == IndexesInit /\ [][IndexesNext]_vars

----------------------------------------------------------------------------
(* Properties of the codec *)

\* the number of times v occurs in the sequence s
Count(s, v) == Cardinality({n \in 1..Len(s) : s[n] = v})
SameBag(s, t) ==
    /\ Len(s) = Len(t)
    /\ \A n \in 1..Len(s) : Count(s, s[n]) = Count(t, s[n])
Ascending(s) == \A n \in 1..(Len(s) - 1) : s[n] <= s[n + 1]
AllPositions(dl) == UNION {{dl[n].val[m] : m \in 1..Len(dl[n].val)} : n \in 1..Len(dl)}
Encoded == ds_pc \in {"encoded", "decoded", "failed"}

\* C1: for a DocSet built by appends with positions in 0..254, encode
\* succeeds and decode(encode(D)) has exactly the docids of D, each with the
\* same multiset of positions as in D, listed in ascending order.
C1_RoundTrip ==
    (Encoded /\ \A x \in AllPositions(docs_list) : x \in 0..254) =>
        /\ ds_pc # "failed"
        /\ ds_pc = "decoded" =>
              /\ decoded.err = "none"
              /\ DictKeys(decoded.val) = DictKeys(docs_list)
              /\ Len(decoded.val) = Len(docs_list)
              /\ \A docid \in DictKeys(docs_list) :
                    /\ SameBag(DictGet(decoded.val, docid),
                               DictGet(docs_list, docid))
                    /\ Ascending(DictGet(decoded.val, docid))

\* C1 witness: a decoded DocSet with two docids whose delta takes several
\* bytes, and a docid whose positions were appended in descending order.
C1_Witness ==
    /\ ds_pc = "decoded"
    /\ Len(docs_list) >= 2
    /\ \E n \in 1..Len(docs_list) :
          /\ Len(docs_list[n].val) >= 2
          /\ docs_list[n].val[1] > docs_list[n].val[2]
    /\ Len(encoded.val) > 2 * Appended(docs_list) + 1

\* C8: encode of a DocSet that holds a position >= 255 raises ValueError and
\* yields no bytes, whatever the docids and the other positions are.
C8_InvalidPosition ==
    (Encoded /\ \E x \in AllPositions(docs_list) : x >= 255) =>
        /\ ds_pc = "failed"
        /\ encoded = Raise("ValueError")

\* C8 witness: encode has failed on a DocSet of two docids that holds the
\* position 255 next to a valid position.
C8_Witness ==
    /\ ds_pc = "failed"
    /\ Len(docs_list) >= 2
    /\ 255 \in AllPositions(docs_list)
    /\ \E x \in AllPositions(docs_list) : x < 255

\* C10: delta_decode(delta_encode(seq)) = seq for every ascending sequence
\* of non-negative integers, duplicates and deltas >= 128 included.
C10_DeltaRoundTrip == delta_pc = "decoded" => delta_out = delta_in

\* C10 witness: a decoded sequence with a repeated value and a delta of
\* 128 or more, whose encoding is longer than the sequence.
C10_Witness ==
    /\ delta_pc = "decoded"
    /\ Len(delta_in) >= 3
    /\ \E n \in 1..(Len(delta_in) - 1) : delta_in[n] = delta_in[n + 1]
    /\ \E n \in 1..(Len(delta_in) - 1) : delta_in[n + 1] - delta_in[n] >= 128
    /\ Len(delta_bytes) > Len(delta_in)

\* C20: in a non-empty output of encode for n pairs no byte of the first n
\* (indexes 0..n-1) is 255 and the byte at index n is 255, so that the first
\* 255 is the sentinel whatever the bytes of the docid stream after it.
C20_Sentinel ==
    (Encoded /\ encoded.err = "none" /\ Len(encoded.val) > 0) =>
        LET n == Appended(docs_list)
        IN  /\ Len(encoded.val) > n
            /\ \A i \in 1..n : encoded.val[i] # SEPARATOR
            /\ encoded.val[n + 1] = SEPARATOR
            /\ bytes_index(encoded.val, SEPARATOR) = n + 1

\* C20 witness: an encoded DocSet of several pairs whose docid stream
\* holds a byte 255, from a delta of 255.
C20_Witness ==
    /\ Encoded /\ encoded.err = "none"
    /\ Appended(docs_list) >= 2
    /\ DictHas(docs_list, 0) /\ DictHas(docs_list, 255)
    /\ \E i \in (Appended(docs_list) + 2)..Len(encoded.val) :
          encoded.val[i] = SEPARATOR

----------------------------------------------------------------------------
(* Properties of Index.create and of the reader *)

NumDocs == Len(source)
NumPages == (NumDocs + PAGE_SIZE - 1) \div PAGE_SIZE
Built == pc = "done" /\ ncalls = 0
\* the source entry that became the document docid
EntryOf(docid) == source[docsrc[docid + 1]]
\* entry a is to come before entry b: higher score, or same score and earlier
Before(a, b) ==
    \/ source[a].page_score > source[b].page_score
    \/ source[a].page_score = source[b].page_score /\ a < b
\* the docids are 0..N-1 and follow the descending stable order of the scores
DenseStableOrder ==
    /\ Len(docsrc) = NumDocs
    /\ {docsrc[d] : d \in 1..Len(docsrc)} = 1..NumDocs
    /\ \A d1, d2 \in 1..Len(docsrc) :
          d1 < d2 <=> Before(docsrc[d1], docsrc[d2])
\* the file name the filename derivation rule gives a title (section 6)
Derived(title) == to_filename(title).val
\* the last call was get_doc of the docid of a built document
GotDoc == pc = "done" /\ call.op = "get_doc" /\ call.arg \in 0..(NumDocs - 1)
\* the record of the docs table for docid
StoredRow(docid) ==
    get_page_query(docs, docid \div PAGE_SIZE)[(docid % PAGE_SIZE) + 1]

\* C2 as stated: docids 0..N-1 in descending-score stable order, and
\* get_doc(k) returns the record of the k-th emitted entry with its score
\* appended.
C2_Original ==
    /\ Built => DenseStableOrder
    /\ GotDoc => call.res = Ok(Append(EntryOf(call.arg).data,
                                      EntryOf(call.arg).page_score))

\* C2 amended: docids 0..N-1 in descending-score stable order, and
\* get_doc(k) returns the record of the k-th emitted entry with its score
\* appended, an absent filename being returned as to_filename(title).
C2_Order ==
    /\ Built => DenseStableOrder
    /\ GotDoc =>
          LET e == EntryOf(call.arg)
              filename == IF e.data[1] = None THEN Derived(e.data[2])
                          ELSE e.data[1]
          IN  call.res = Ok(Append([e.data EXCEPT ![1] = filename],
                                   e.page_score))

\* C2 witness: get_doc has returned a document that was not first in the
\* source but got docid 0, from a source with a tie of scores.
C2_Witness ==
    /\ GotDoc /\ call.arg = 0 /\ call.res.err = "none"
    /\ docsrc[1] > 1
    /\ \E a, b \in 1..NumDocs :
          a # b /\ source[a].page_score = source[b].page_score

\* the indexes (from 0) at which w occurs in words, ascending
IndexesOf(w, words) ==
    LET all == [n \in 1..Len(words) |-> n - 1]
        Here(at) == words[at + 1] = w
    IN  SelectSeq(all, Here)

\* C3: after a completed build the DocSet stored for a word decodes to the
\* documents whose word list contains the word, each with the ascending
\* list of the indexes at which the word occurs in that word list.
C3_Postings ==
    Built =>
        \A n \in 1..Len(tokens) :
            LET w == tokens[n].word
                ds == DocSet_decode(tokens[n].docsets)
                with == {d \in 0..(NumDocs - 1) :
                            \E m \in 1..Len(EntryOf(d).words) :
                                EntryOf(d).words[m] = w}
            IN  /\ ds.err = "none"
                /\ DictKeys(ds.val) = with
                /\ Len(ds.val) = Cardinality(with)
                /\ \A d \in with :
                      DictGet(ds.val, d) = IndexesOf(w, EntryOf(d).words)

\* C3 witness: a build of more than one page whose tokens are stored, with
\* a word that occurs twice in a document of the second page.
C3_Witness ==
    /\ Built /\ NumDocs > PAGE_SIZE /\ Len(tokens) >= 2
    /\ \E d \in PAGE_SIZE..(NumDocs - 1) :
          Len(IndexesOf(Word_cat, EntryOf(d).words)) >= 2

\* the record the docs table holds for an entry
RowOf(e) ==
    Append(IF e.data[1] = Derived(e.data[2]) THEN [e.data EXCEPT ![1] = None]
           ELSE e.data, e.page_score)

\* C4: a completed build of N >= 1 documents holds the pages
\* 0..ceil(N / PAGE_SIZE) - 1, all full but the last, which holds the rest,
\* and docid d is the record at offset d mod PAGE_SIZE of page
\* d div PAGE_SIZE.
C4_Pages ==
    (Built /\ NumDocs >= 1) =>
        /\ Len(docs) = NumPages
        /\ {docs[n].pageid : n \in 1..Len(docs)} = 0..(NumPages - 1)
        /\ \A n \in 1..Len(docs) :
              Len(decompress_data(docs[n].data)) =
                 IF docs[n].pageid < NumPages - 1 THEN PAGE_SIZE
                 ELSE NumDocs - PAGE_SIZE * (NumPages - 1)
        /\ \A d \in 0..(NumDocs - 1) : StoredRow(d) = RowOf(EntryOf(d))

\* C4 witness: PAGE_SIZE + 1 documents built into two pages, docid
\* PAGE_SIZE - 1 the last record of page 0 and docid PAGE_SIZE the only
\* record of page 1.
C4_Witness ==
    /\ Built /\ NumDocs = PAGE_SIZE + 1 /\ Len(docs) = 2
    /\ Len(get_page_query(docs, 0)) = PAGE_SIZE
    /\ Len(get_page_query(docs, 1)) = 1
    /\ get_page_query(docs, 1)[1] = RowOf(EntryOf(PAGE_SIZE))

\* C5: len() of a reader on a completed build of N >= 1 documents is N,
\* the highest pageid times PAGE_SIZE plus the record count of that page.
C5_Len ==
    (pc = "done" /\ call.op = "len" /\ NumDocs >= 1) =>
        /\ call.res = Ok(NumDocs)
        /\ \E n \in 1..Len(docs) :
              /\ \A m \in 1..Len(docs) : docs[m].pageid <= docs[n].pageid
              /\ NumDocs = docs[n].pageid * PAGE_SIZE +
                           Len(decompress_data(docs[n].data))

\* C5 witness: len() has returned N on a build of exactly two full pages.
C5_Witness ==
    /\ pc = "done" /\ call.op = "len"
    /\ NumDocs = 2 * PAGE_SIZE /\ call.res = Ok(NumDocs)

\* C6 as stated: get_doc of a docid that is no built document (negative, or
\* at least len(), also inside the last page) returns None and never raises.
C6_NotFound ==
    (pc = "done" /\ call.op = "get_doc" /\ call.arg \notin 0..(NumDocs - 1)) =>
        call.res = Ok(None)

\* C7 as stated: with an entry of 256 or more words create fails with the
\* ValueError of DocSet.encode and returns no count.
C7_InvalidPosition ==
    (/\ pc \in {"done", "failed"}
     /\ \E n \in 1..Len(source) : Len(source[n].words) >= 256) =>
        /\ pc = "failed"
        /\ create_ret = Raise("ValueError")

\* C9 as stated: the stored filename is absent exactly when the source
\* filename equals to_filename(title), and get_doc returns the source
\* filename in both cases.
C9_Original ==
    /\ Built =>
          \A d \in 0..(NumDocs - 1) :
              StoredRow(d)[1] = None <=>
                  EntryOf(d).data[1] = Derived(EntryOf(d).data[2])
    /\ GotDoc => /\ call.res.err = "none"
                 /\ call.res.val[1] = EntryOf(call.arg).data[1]

\* C9 amended: the stored filename is absent exactly when the source
\* filename is absent or equals to_filename(title); get_doc returns the
\* source filename when the source had one, and to_filename(title) when
\* the source filename was absent.
C9_Filename ==
    /\ Built =>
          \A d \in 0..(NumDocs - 1) :
              StoredRow(d)[1] = None <=>
                  \/ EntryOf(d).data[1] = None
                  \/ EntryOf(d).data[1] = Derived(EntryOf(d).data[2])
    /\ GotDoc => /\ call.res.err = "none"
                 /\ call.res.val[1] =
                       IF EntryOf(call.arg).data[1] = None
                       THEN Derived(EntryOf(call.arg).data[2])
                       ELSE EntryOf(call.arg).data[1]

\* C9 witness: get_doc has returned, back-filled from the title, the
\* filename of a document stored without it because the source filename
\* was the derived one.
C9_Witness ==
    /\ GotDoc /\ call.res.err = "none"
    /\ StoredRow(call.arg)[1] = None
    /\ EntryOf(call.arg).data[1] = Derived(EntryOf(call.arg).data[2])
    /\ call.res.val[1] = EntryOf(call.arg).data[1]

----------------------------------------------------------------------------
(* Properties of the other reader operations *)

\* the words that occur in the word list of some entry of the source
AllWords == UNION {{source[n].words[m] : m \in 1..Len(source[n].words)} :
                      n \in 1..Len(source)}
\* the last call of the reader was op, on a completed build
Called(op) == pc = "done" /\ call.op = op

\* C11: after a completed build the tokens table holds one row per distinct
\* word of the word lists, keys() returns exactly those words, each once,
\* and contains(w) is true exactly when w occurs in some word list.
C11_Keys ==
    /\ pc = "done" =>
          /\ {tokens[n].word : n \in 1..Len(tokens)} = AllWords
          /\ Len(tokens) = Cardinality(AllWords)
    /\ Called("keys") =>
          /\ call.res.err = "none"
          /\ {call.res.val[n] : n \in 1..Len(call.res.val)} = AllWords
          /\ Len(call.res.val) = Cardinality(AllWords)
    /\ Called("contains") => call.res = Ok(call.arg \in AllWords)

\* C11 witness: keys() has returned the two words of an index in which one
\* of the words occurs in several entries and several times in one of them.
C11_Witness ==
    /\ Called("keys") /\ Len(call.res.val) = 2
    /\ \E a \in 1..NumDocs : Len(IndexesOf(Word_cat, source[a].words)) >= 2
    /\ \E a, b \in 1..NumDocs :
          /\ a # b
          /\ \E m \in 1..Len(source[a].words) : source[a].words[m] = Word_dog
          /\ \E m \in 1..Len(source[b].words) : source[b].words[m] = Word_dog

\* C12: on an index of N >= 1 documents random() does not raise, draws a
\* docid of 0..N-1, whichever it is, and returns the record of that
\* document, which is not None.
C12_Random ==
    (Called("random") /\ NumDocs >= 1) =>
        /\ call.res.err = "none"
        /\ call.arg \in 0..(NumDocs - 1)
        /\ call.res.val # None
        /\ call.res.val[2] = EntryOf(call.arg).data[2]
        /\ call.res.val[3] = EntryOf(call.arg).page_score

\* C12 witness: on an index of PAGE_SIZE + 1 documents random() has drawn
\* the last docid, the only one of its page, and returned its record.
C12_Witness ==
    /\ Called("random") /\ NumDocs = PAGE_SIZE + 1
    /\ call.arg = NumDocs - 1 /\ call.res.err = "none"
    /\ call.res.val # None

\* C13: values() yields N records for an index of N documents, and the
\* k-th of them (from 0) is the stored record of docid k: the next() that
\* follows k records yields the stored record of docid k when k < N, and
\* ends the iteration when k = N.
C13_Values ==
    Called("next") =>
        IF call.res.err = "none"
        THEN /\ call.arg \in 0..(NumDocs - 1)
             /\ values_yielded(values_gen) = call.arg + 1
             /\ call.res.val = StoredRow(call.arg)
             /\ call.res.val = RowOf(EntryOf(call.arg))
        ELSE /\ call.res = Raise("StopIteration")
             /\ call.arg = NumDocs
             /\ values_yielded(values_gen) = NumDocs

\* C13 witness: the generator of an index of two pages has come to its
\* end after PAGE_SIZE + 1 records, a record stored without its filename
\* among them, on a reader that has served another call besides values().
C13_Witness ==
    /\ Called("next") /\ Len(docs) = 2
    /\ call.res = Raise("StopIteration") /\ call.arg = PAGE_SIZE + 1
    /\ \E k \in 0..PAGE_SIZE : StoredRow(k)[1] = None
    /\ ncalls >= 2

\* an entry of the source has an empty title
EmptyTitle(n) == Len(source[n].data[2]) = 0

\* C14: with an empty title in the source, with or without a filename,
\* create never gets past the order pass, writes no docs page and no tokens
\* row, and fails with the ValueError of to_filename at the first such entry.
C14_InvalidTitle ==
    (\E n \in 1..Len(source) : EmptyTitle(n)) =>
        /\ pc \in {"order", "failed"}
        /\ docs = <<>> /\ tokens = <<>>
        /\ src_pos < Len(source)
        /\ \A n \in 1..src_pos : ~EmptyTitle(n)
        /\ pc = "failed" => /\ create_ret = Raise("ValueError")
                            /\ EmptyTitle(src_pos + 1)

\* C14 witness: create has failed with ValueError on the second entry, which
\* has an empty title and an explicit filename, the first entry being valid.
C14_Witness ==
    /\ pc = "failed" /\ create_ret = Raise("ValueError")
    /\ Len(source) >= 2 /\ src_pos = 1
    /\ EmptyTitle(2) /\ source[2].data[1] # None
    /\ docs = <<>> /\ tokens = <<>>

\* the pairs (word, entry) such that the word occurs in the entry's words
WordDocPairs ==
    UNION {{<<source[n].words[m], n>> : m \in 1..Len(source[n].words)} :
              n \in 1..Len(source)}
\* the number of words of all the word lists, repetitions counted
WordOccurrences ==
    LET RECURSIVE total(_)
        total(n) == IF n = 0 THEN 0 ELSE Len(source[n].words) + total(n - 1)
    IN  total(Len(source))

\* C15: a completed create returns the number of distinct pairs (word,
\* document) with the word in the document's word list, a word repeated in
\* one word list counted once.
C15_Count ==
    pc = "done" => create_ret = Ok(Cardinality(WordDocPairs))

\* C15 witness: create has returned the count for a source of several
\* entries in which a word is repeated inside one word list, so that the
\* count is less than the number of word occurrences.
C15_Witness ==
    /\ pc = "done" /\ NumDocs \in 2..MaxDocs
    /\ create_ret.err = "none"
    /\ create_ret.val >= 2
    /\ create_ret.val < WordOccurrences

----------------------------------------------------------------------------
(* Properties of the caches *)

\* the keys of a cache, least recently used first
CacheKeys(cache) == [n \in 1..Len(cache) |-> cache[n].key]
\* a sequence without one of its elements
Without(keys, key) == SelectSeq(keys, LAMBDA k : k # key)
\* this step is a call of get_doc, its page lookup included
PageLookup == pc = "done" /\ (ncalls' # ncalls \/ scan' # scan)
\* the key of the page looked up by the call this step makes
LookupKey == <<call'.self, call'.arg \div PAGE_SIZE>>

\* C17: the page cache never holds more than PAGE_CACHE_SIZE entries; a
\* lookup of a page in the cache does not read the docs table and makes the
\* page the most recently used; a lookup of a page not in the cache reads
\* the table, and when the cache is full drops the least recently used
\* entry and keeps the others in their order.
C17_Lru ==
    [][ /\ Len(page_cache') <= PAGE_CACHE_SIZE
        /\ PageLookup =>
              LET keys == CacheKeys(page_cache)
                  hit == lru_has(page_cache, LookupKey)
                  full == Len(page_cache) = PAGE_CACHE_SIZE
              IN  /\ hit => /\ ~call'.read
                            /\ page_reads' = page_reads
                            /\ CacheKeys(page_cache') =
                                  Append(Without(keys, LookupKey), LookupKey)
                  /\ (~hit) => /\ call'.read
                               /\ page_reads' = Append(page_reads, LookupKey)
                  /\ (~hit /\ ~full) =>
                        CacheKeys(page_cache') = Append(keys, LookupKey)
                  /\ (~hit /\ full) =>
                        CacheKeys(page_cache') = Append(Tail(keys), LookupKey)
      ]_vars

\* C17 witness: with the pages 1..PAGE_CACHE_SIZE in a full cache, the
\* lookup of one more page has read the table and put it in the place of
\* page 1, the least recently used, the others being kept.
C17_Witness ==
    /\ pc = "done" /\ scan = ScanPages /\ ncalls = 1
    /\ call.arg = (ScanPages + 1) * PAGE_SIZE /\ call.read
    /\ Len(page_cache) = PAGE_CACHE_SIZE
    /\ ~lru_has(page_cache, <<Self, 1>>)
    /\ \A k \in 2..(ScanPages + 1) : lru_has(page_cache, <<Self, k>>)

\* what get_doc(docid) returns when the page is read from the docs table
\* and decoded for the call
UncachedGetDoc(docid) ==
    get_doc_row(get_page_query(docs, docid \div PAGE_SIZE), docid % PAGE_SIZE).res

\* C18: every get_doc(d) returns what a reader without cache returns, also
\* after the page was evicted and read again, and the docs table of a
\* completed build is never written by the reader.
C18_Uncached ==
    /\ [](Called("get_doc") => call.res = UncachedGetDoc(call.arg))
    /\ [][pc = "done" => docs' = docs]_vars

\* C18 witness: get_doc(0) has read page 0 from the table for the second
\* time, the page having left the cache after its record got its filename,
\* and returned the record with the filename, which the table does not hold.
C18_Witness ==
    /\ Called("get_doc") /\ call.arg = 0 /\ call.read
    /\ Count(page_reads, <<Self, 0>>) = 2
    /\ page_reads[1] = <<Self, 0>>
    /\ StoredRow(0)[1] = None
    /\ call.res.err = "none" /\ call.res.val[1] = Derived(EntryOf(0).data[2])

\* C19 as stated: every reader reads the docs table for its length at most
\* once, whatever the number of readers of the process and the order of
\* their len() calls; every later len() of the reader is served by the cache.
C19_LenOnce ==
    \A self \in Readers : Count(len_reads, self) <= 1

----------------------------------------------------------------------------
(* Properties of get_doc called by several threads *)

\* thread t has returned from get_doc of the docid of a built document
Returned(t) ==
    /\ threads[t].pc = "idle" /\ threads[t].calls >= 1
    /\ threads[t].docid \in 0..(NumDocs - 1)
\* the row of the heap that the call of thread t returned
ReturnedRow(t) == heap[threads[t].ref][(threads[t].docid % PAGE_SIZE) + 1]

\* C16: however the steps of the get_doc calls of the threads interleave, a
\* call for an existing docid returns a record with its filename set, the
\* record a call made alone returns; the row it returned keeps that value,
\* and calls for the same docid return equal records.
C16_Threads ==
    /\ \A t \in Threads :
          Returned(t) =>
             /\ threads[t].res.err = "none"
             /\ threads[t].res.val # None
             /\ threads[t].res.val[1] # None
             /\ threads[t].res = UncachedGetDoc(threads[t].docid)
             /\ ReturnedRow(t) = threads[t].res.val
    /\ \A t, u \in Threads :
          (Returned(t) /\ Returned(u) /\ threads[t].docid = threads[u].docid)
             => threads[t].res = threads[u].res

\* C16 witness: two threads have returned from get_doc(0) on the same page
\* object, each having found the filename absent and stored it.
C16_Witness ==
    /\ Returned(1) /\ Returned(2)
    /\ threads[1].docid = 0 /\ threads[2].docid = 0
    /\ threads[1].ref = threads[2].ref
    /\ threads[1].wrote /\ threads[2].wrote
    /\ StoredRow(0)[1] = None

----------------------------------------------------------------------------
(* Properties of the document store during the build *)

\* the docs table holds the pages 0..n-1, written in this order
PagesInOrder(n) ==
    /\ Len(docs) = n
    /\ \A m \in 1..n : docs[m].pageid = m - 1
\* the number of records of the page written as the m-th
PageLen(m) == Len(decompress_data(docs[m].data))

\* C21: while documents are appended, after k appends the docs table holds
\* the full pages 0 .. k div PAGE_SIZE - 1, written once each in this order,
\* and the buffer holds the records of the last k mod PAGE_SIZE documents;
\* finish() writes one more page exactly when the buffer is not empty; no
\* page is empty, and a step only ever adds one page after the others,
\* leaving the pages written before as they are.
C21_Flush ==
    /\ [](pc = "add_docs" =>
            LET k == docs_table.count
                full == k \div PAGE_SIZE
            IN  /\ PagesInOrder(full)
                /\ \A m \in 1..full : PageLen(m) = PAGE_SIZE
                /\ Len(docs_table.buffer) = k % PAGE_SIZE
                /\ \A i \in 1..Len(docs_table.buffer) :
                      docs_table.buffer[i].data =
                         RowOf(EntryOf(full * PAGE_SIZE + i - 1)))
    /\ [](pc \in {"tokens", "done"} =>
            LET k == docs_table.count
            IN  /\ PagesInOrder((k + PAGE_SIZE - 1) \div PAGE_SIZE)
                /\ \A m \in 1..Len(docs) : PageLen(m) >= 1)
    /\ [][ /\ docs' # docs =>
                /\ Len(docs') = Len(docs) + 1
                /\ SubSeq(docs', 1, Len(docs)) = docs
           /\ (pc = "add_docs" /\ pc' = "tokens") =>
                (docs' # docs <=> Len(docs_table.buffer) > 0)
         ]_vars

\* C21 witness: PAGE_SIZE + 1 documents of a longer source are appended:
\* page 0 is written and the buffer holds the one document after it.
C21_Witness ==
    /\ pc = "add_docs" /\ docs_table.count = PAGE_SIZE + 1
    /\ NumDocs = 2 * PAGE_SIZE
    /\ Len(docs) = 1 /\ docs[1].pageid = 0
    /\ Len(docs_table.buffer) = 1

----------------------------------------------------------------------------
(* Properties of Index objects on different directories *)

\* the last call was op on an Index object opened
CalledOn(op) == call.op = op /\ call.self \in 1..Len(dirs)
\* what get_doc(docid) returns when the page is read from the docs table of
\* the Index object self and decoded for the call
OwnGetDoc(self, docid) ==
    get_doc_row(get_page_query(dirs[self].docs, docid \div PAGE_SIZE),
                docid % PAGE_SIZE).res

\* C22: with Index objects on different directories sharing the caches of
\* __len__ and _get_page, len() returns the number of documents of the
\* object's own index and get_doc the record its own docs table gives,
\* whatever the other objects were called for before.
C22_OwnIndex ==
    /\ CalledOn("len") =>
          /\ call.res = Ok(Len(dirs[call.self].source))
          /\ call.res = len_query(dirs[call.self].docs)
    /\ CalledOn("get_doc") =>
          /\ call.res = OwnGetDoc(call.self, call.arg)
          /\ (call.arg < Len(dirs[call.self].source)) =>
                /\ call.res.err = "none"
                /\ call.res.val[2] =
                      dirs[call.self].source[
                          dirs[call.self].docsrc[call.arg + 1]].data[2]

\* C22 witness: get_doc(0) of the second Index object has returned its own
\* record while the cache holds page 0 of the first object, whose record
\* of docid 0 is another one.
C22_Witness ==
    /\ CalledOn("get_doc") /\ call.self = 2 /\ call.arg = 0
    /\ call.res.err = "none"
    /\ lru_has(page_cache, <<1, 0>>)
    /\ lru_get(page_cache, <<1, 0>>)[1] # call.res.val
    /\ call.res = OwnGetDoc(2, 0)
    /\ OwnGetDoc(1, 0) # OwnGetDoc(2, 0)

====
